---- MODULE Spec2Model ----
(***************************************************************************)
(* Model of the private one-to-one chat of sockets/privateChatHandlers.js  *)
(* and of the HTTP "mark conversation seen" route of routes/privateChat.js, *)
(* and of the middleware of the user search: middleware/searchCache.js and *)
(* preventDuplicateSearches of middleware/searchValidation.js.             *)
(*                                                                         *)
(* The process is single-threaded and event-driven: every action below is  *)
(* the code that runs between two suspension points (await) of one         *)
(* handler, or one operation of the database taking effect.                *)
(***************************************************************************)
EXTENDS Integers, Sequences, FiniteSets, TLC

(***************************************************************************)
(* Bounds of the model.                                                    *)
(***************************************************************************)
MaxEvents == 4       \* client events handled by Spec: connections, disconnects,
                     \* send_message, mark_seen and HTTP seen requests
MaxTicks == 3        \* advances of the clock (SpecRate)
MaxRejects == 2      \* rejected attempts of one user in one window (SpecRate)
maxSize == 3         \* options.maxSize of the SearchCache the model builds; the
                     \* module's own instance is built with maxSize 100

(***************************************************************************)
(* Program constants.                                                      *)
(***************************************************************************)
RATE_LIMIT_MAX == 100
RATE_LIMIT_WINDOW == 60 * 1000
MaxContentLength == 5000

Users == {"A", "B"}
Conns == 1..MaxEvents
None == 0            \* undefined: Map.get of a missing key, a null

SENT == "enviado"
DELIVERED == "entregado"
SEEN == "visto"

VARIABLES
    connState,          \* socket -> "idle" | "refused" | "open" | "closed"
    connUser,           \* socket -> socket.userId ("" until authenticated)
    usuariosConectados, \* the presence map: userId -> socket | None
    rateLimits,         \* the rate-limit map: userId -> {count, resetAt} | None
    now,                \* Date.now()
    ticks,              \* advances of the clock so far
    mensajes,           \* the table mensajes: row id -> row, ids 1..Len
    handlers,           \* the handlers suspended on an await
    nEvents,            \* client events handled so far
    rateAudit,          \* userId -> the attempts of its current window (history)
    audit,              \* per row: what happened to it (history, not code state)
    lastReg,            \* userId -> the socket registered last for it | None
    last,               \* the step taken last
    out,                \* the events emitted by the step taken last
    cache,              \* searchCache.cache: the entries, in insertion order
    hits,               \* searchCache.hits
    misses,             \* searchCache.misses
    pending,            \* the searches past a cache miss whose route has not answered
    recentSearches,     \* the map of preventDuplicateSearches: key -> timestamp
    searchAudit,        \* key -> time of the last search let through (history)
    ret                 \* what the search operation run last did and answered

chatVars == <<connState, connUser, usuariosConectados, rateLimits, mensajes, handlers,
              rateAudit, audit, lastReg>>
searchVars == <<cache, hits, misses, pending, recentSearches, searchAudit, ret>>
vars == <<connState, connUser, usuariosConectados, rateLimits, now, ticks,
          mensajes, handlers, nEvents, rateAudit, audit, lastReg, last, out,
          cache, hits, misses, pending, recentSearches, searchAudit, ret>>

(***************************************************************************)
(* JavaScript Map: a function whose domain is the set of keys present.     *)
(***************************************************************************)
EmptyMap == [k \in {} |-> None]
MapHas(m, k) == k \in DOMAIN m
MapSet(m, k, v) == [x \in (DOMAIN m) \cup {k} |-> IF x = k THEN v ELSE m[x]]
MapDelete(m, k) == [x \in (DOMAIN m) \ {k} |-> m[x]]
MapGet_AnyEntry(m, k) == IF DOMAIN m = {} THEN None ELSE m[CHOOSE x \in DOMAIN m : TRUE]
\* usuariosConectados.get(userId): the socket, or undefined
MapGet(m, k) == IF k \in DOMAIN m THEN m[k] ELSE None

\* what a search operation did: the operation, its key, what it answered
\* (the data of a hit, NullData for null), and the key it deleted: the one set()
\* evicted, the expired one get() removed
NoKey == [q |-> [word |-> None, caps |-> FALSE, pad |-> 0], f |-> None]
NullData == [rows |-> None, at |-> None, neq |-> ""]
Ret(op, key, data, evicted) ==
    [op |-> op, key |-> key, data |-> data, evicted |-> evicted, user |-> ""]
\* the same for a step that serves the request of req.user.id = userId
RetTo(userId, op, key, data, evicted) == [Ret(op, key, data, evicted) EXCEPT !.user = userId]
\* the search middleware after the modules are loaded: new SearchCache(),
\* new Map()
SearchInit ==
    /\ cache = <<>>
    /\ hits = 0
    /\ misses = 0
    /\ pending = EmptyMap
    /\ recentSearches = EmptyMap
    /\ searchAudit = EmptyMap
    /\ ret = Ret("init", NoKey, NullData, NoKey)

(***************************************************************************)
(* Values a client can put in an event.                                    *)
(* A content is its JavaScript type, the number of white-space characters  *)
(* around it (pad), the length of what is left after trim() (len), and     *)
(* what the text is: plain text, text with markup, or an HTML comment only. *)
(***************************************************************************)
Content(isStr, pad, len, kind) == [str |-> isStr, pad |-> pad, len |-> len, kind |-> kind]
NullContent == Content(FALSE, 0, 0, "null")
\* the contents the model's clients send
Contents ==
    { Content(FALSE, 0, 7, "plain"),                    \* not a string (a number, an object)
      Content(TRUE, 2, 0, "plain"),                     \* "  "
      Content(TRUE, 1, MaxContentLength, "plain"),      \* 5000 characters after trim()
      Content(TRUE, 0, MaxContentLength, "comment"),    \* "<!--", 4993 characters, "-->"
      Content(TRUE, 0, MaxContentLength + 1, "plain") } \* 5001 characters after trim()

\* `to` of an event: its JavaScript type and, for a string, its value
To(type, val) == [type |-> type, val |-> val]
Tos == { To("string", u) : u \in Users } \cup { To("undefined", ""), To("number", "42") }

\* handshake.auth.token and what supabaseAdmin.auth.getUser answers for it
\* "expired" is a token of "A" that is no longer valid, "orphan" a token that
\* resolves to no user, "down" a token presented while the call rejects
Tokens == { "", "expired", "orphan", "down", "tok-A", "tok-B" }
getUser(token) ==
    CASE token = "tok-A" -> [user |-> "A", error |-> FALSE, throws |-> FALSE]
      [] token = "tok-B" -> [user |-> "B", error |-> FALSE, throws |-> FALSE]
      [] token = "orphan" -> [user |-> "", error |-> FALSE, throws |-> FALSE]
      [] token = "down" -> [user |-> "", error |-> FALSE, throws |-> TRUE]
      [] OTHER -> [user |-> "", error |-> TRUE, throws |-> FALSE]

(***************************************************************************)
(* checkRateLimit(userId): the table after the call and what it returns.   *)
(***************************************************************************)
checkRateLimit_AtLimitOffByOne(limits, userId, t) ==
    IF ~MapHas(limits, userId) \/ t > limits[userId].resetAt
    THEN [ok |-> TRUE,
          limits |-> MapSet(limits, userId, [count |-> 1, resetAt |-> t + RATE_LIMIT_WINDOW])]
    ELSE IF limits[userId].count > RATE_LIMIT_MAX
         THEN [ok |-> FALSE, limits |-> limits]
         ELSE [ok |-> TRUE,
               limits |-> [limits EXCEPT ![userId].count = @ + 1]]

checkRateLimit_CountsRejected(limits, userId, t) ==
    IF ~MapHas(limits, userId) \/ t > limits[userId].resetAt
    THEN [ok |-> TRUE,
          limits |-> MapSet(limits, userId, [count |-> 1, resetAt |-> t + RATE_LIMIT_WINDOW])]
    ELSE IF limits[userId].count >= RATE_LIMIT_MAX
         THEN [ok |-> FALSE, limits |-> [limits EXCEPT ![userId].count = @ + 1]]
         ELSE [ok |-> TRUE,
               limits |-> [limits EXCEPT ![userId].count = @ + 1]]

checkRateLimit_NeverRejects(limits, userId, t) ==
    IF ~MapHas(limits, userId) \/ t > limits[userId].resetAt
    THEN [ok |-> TRUE,
          limits |-> MapSet(limits, userId, [count |-> 1, resetAt |-> t + RATE_LIMIT_WINDOW])]
    ELSE [ok |-> TRUE,
          limits |-> [limits EXCEPT ![userId].count = @ + 1]]

checkRateLimit_ExpiresAtResetAt(limits, userId, t) ==
    IF ~MapHas(limits, userId) \/ t >= limits[userId].resetAt
    THEN [ok |-> TRUE,
          limits |-> MapSet(limits, userId, [count |-> 1, resetAt |-> t + RATE_LIMIT_WINDOW])]
    ELSE IF limits[userId].count >= RATE_LIMIT_MAX
         THEN [ok |-> FALSE, limits |-> limits]
         ELSE [ok |-> TRUE,
               limits |-> [limits EXCEPT ![userId].count = @ + 1]]
checkRateLimit_StartsAtZero(limits, userId, t) ==
    IF ~MapHas(limits, userId) \/ t > limits[userId].resetAt
    THEN [ok |-> TRUE,
          limits |-> MapSet(limits, userId, [count |-> 0, resetAt |-> t + RATE_LIMIT_WINDOW])]
    ELSE IF limits[userId].count >= RATE_LIMIT_MAX
         THEN [ok |-> FALSE, limits |-> limits]
         ELSE [ok |-> TRUE,
               limits |-> [limits EXCEPT ![userId].count = @ + 1]]
checkRateLimit(limits, userId, t) ==
    IF ~MapHas(limits, userId) \/ t > limits[userId].resetAt
    THEN [ok |-> TRUE,
          limits |-> MapSet(limits, userId, [count |-> 1, resetAt |-> t + RATE_LIMIT_WINDOW])]
    ELSE IF limits[userId].count >= RATE_LIMIT_MAX
         THEN [ok |-> FALSE, limits |-> limits]
         ELSE [ok |-> TRUE,
               limits |-> [limits EXCEPT ![userId].count = @ + 1]]

(***************************************************************************)
(* sanitizeMessage(content)                                                *)
(***************************************************************************)
\* String.prototype.trim(): the white space around the text is removed
trim(c) == [c EXCEPT !.pad = 0]
\* xss(text): markup is escaped ("<" becomes "&lt;", ">" becomes "&gt;"), an
\* HTML comment is removed, plain text is returned as it is
xss(c) ==
    CASE c.kind = "markup" -> [c EXCEPT !.len = @ + 6, !.kind = "escaped"]
      [] c.kind = "comment" -> [c EXCEPT !.len = 0, !.kind = "plain"]
      [] OTHER -> c

sanitizeMessage_LengthOffByOne(content) ==
    IF ~content.str THEN NullContent
    ELSE LET trimmed == trim(content) IN
         IF trimmed.len = 0 \/ trimmed.len >= MaxContentLength THEN NullContent
         ELSE xss(trimmed)

sanitizeMessage(content) ==
    IF ~content.str THEN NullContent
    ELSE LET trimmed == trim(content) IN
         IF trimmed.len = 0 \/ trimmed.len > MaxContentLength THEN NullContent
         ELSE xss(trimmed)

\* !sanitizedContent: null and the empty string are falsy
Falsy(c) == c.kind = "null" \/ (c.str /\ c.pad + c.len = 0)
\* !to || typeof to !== 'string'
InvalidTo(to) == to.type # "string" \/ to.val = ""

(***************************************************************************)
(* Events emitted to sockets.  An emit to a socket that is closed is a     *)
(* no-op of the transport.                                                 *)
(***************************************************************************)
\* a payload: the fields of all the events, "" or 0 where an event has none
Payload(id, estado, from, dest, content) ==
    [id |-> id, estado |-> estado, from |-> from, dest |-> dest, content |-> content]
Emit(c, ev, p) == [to |-> c, ev |-> ev, p |-> p]
ErrorEvent(c, message) == Emit(c, "error", Payload(0, message, "", "", NullContent))
\* socket.broadcast.emit('user_status', {userId, status}): to every connected
\* socket but `c` itself
Broadcast_IncludingSelf(c, userId, status) ==
    LET ev(d) == Emit(d, "user_status", Payload(0, status, userId, "", NullContent))
        Cat[i \in 0..MaxEvents] ==
            IF i = 0 THEN <<>>
            ELSE IF i = c \/ connState[i] = "open" THEN Append(Cat[i - 1], ev(i))
                 ELSE Cat[i - 1]
    IN Cat[MaxEvents]
Broadcast(c, userId, status) ==
    LET ev(d) == Emit(d, "user_status", Payload(0, status, userId, "", NullContent))
        Cat[i \in 0..MaxEvents] ==
            IF i = 0 THEN <<>>
            ELSE IF i # c /\ connState[i] = "open" THEN Append(Cat[i - 1], ev(i))
                 ELSE Cat[i - 1]
    IN Cat[MaxEvents]
\* what a client gets: the transport drops an emit to a socket that is closed
Received(e) == connState[e.to] = "open"

\* the step taken last: the handler, its socket, the row it worked on, the
\* path it took and, for send_message, the `to` and content of the event
\* (for a connection: the token presented, in `to`)
StepOf(op, c, id, info, to, content) ==
    [op |-> op, conn |-> c, id |-> id, info |-> info, to |-> to, content |-> content]
Step(op, c, id, info) == StepOf(op, c, id, info, To("undefined", ""), NullContent)

Rank(estado) == CASE estado = SENT -> 0 [] estado = DELIVERED -> 1 [] estado = SEEN -> 2

(***************************************************************************)
(* The state after setupPrivateChatHandlers(io): both maps empty, no row   *)
(* written by this process, no socket.                                     *)
(***************************************************************************)
Init ==
    /\ connState = [c \in Conns |-> "idle"]
    /\ connUser = [c \in Conns |-> ""]
    /\ usuariosConectados = EmptyMap
    /\ rateLimits = EmptyMap
    /\ now = 0
    /\ ticks = 0
    /\ mensajes = <<>>
    /\ handlers = {}
    /\ nEvents = 0
    /\ rateAudit = EmptyMap
    /\ audit = <<>>
    /\ lastReg = EmptyMap
    /\ last = Step("init", 0, 0, "")
    /\ out = <<>>
    /\ SearchInit

(***************************************************************************)
(* io.use + io.on('connection'): a socket presents a token; a refused      *)
(* socket never reaches the connection handler.  Sockets are numbered in   *)
(* the order they arrive, and the user that authenticates first is called  *)
(* "A" (the users are interchangeable).                                    *)
(***************************************************************************)
\* the middleware's verdict: the userId to attach, or "" when next(Error)
Authenticate_AcceptsExpired(token) ==
    IF token = "" THEN ""
    ELSE IF token = "expired" THEN "A"
    ELSE LET r == getUser(token) IN
         IF r.throws THEN "" ELSE IF r.error \/ r.user = "" THEN "" ELSE r.user

Authenticate(token) ==
    IF token = "" THEN ""
    ELSE LET r == getUser(token) IN
         IF r.throws THEN "" ELSE IF r.error \/ r.user = "" THEN "" ELSE r.user

\* usuariosConectados.set(userId, socket)
PresenceSet(m, userId, socket) == MapSet(m, userId, socket)
PresenceDelete_Keeps(m, userId, socket) == m
\* usuariosConectados.delete(userId) of the disconnect handler of `socket`
PresenceDelete(m, userId, socket) == MapDelete(m, userId)

\* one more client event is handled
ClientEvent == nEvents < MaxEvents /\ nEvents' = nEvents + 1

Connect(c, token) ==
    /\ UNCHANGED searchVars
    /\ ClientEvent
    /\ connState[c] = "idle"
    /\ \A d \in Conns : d < c => connState[d] # "idle"
    /\ LET userId == Authenticate(token) IN
       /\ userId = "B" => \E d \in Conns : connUser[d] = "A"
       /\ IF userId = ""
          THEN /\ connState' = [connState EXCEPT ![c] = "refused"]
               /\ last' = StepOf("refused", c, 0, "", To("token", token), NullContent)
               /\ out' = <<>>
               /\ UNCHANGED <<connUser, usuariosConectados, lastReg>>
          ELSE /\ connState' = [connState EXCEPT ![c] = "open"]
               /\ connUser' = [connUser EXCEPT ![c] = userId]
               /\ usuariosConectados' = PresenceSet(usuariosConectados, userId, c)
               /\ lastReg' = MapSet(lastReg, userId, c)
               /\ last' = StepOf("connection", c, 0, userId, To("token", token), NullContent)
               /\ out' = Broadcast(c, userId, "online")
    /\ UNCHANGED <<rateLimits, now, ticks, mensajes, handlers, rateAudit, audit>>

\* the handlers of socket `c` that are suspended on an await when it
\* disconnects: the disconnect handler does nothing about them
HandlersAfterDisconnect_Cancels(c) == { h \in handlers : h.conn # c }
HandlersAfterDisconnect(c) == handlers

\* the table of windows when a socket of `userId` disconnects: the
\* disconnect handler has no statement about rateLimits
RateLimitsAfterDisconnect_Resets(limits, userId) == MapDelete(limits, userId)
RateLimitsAfterDisconnect(limits, userId) == limits

\* socket.on('disconnect')
Disconnect(c) ==
    /\ UNCHANGED searchVars
    /\ ClientEvent
    /\ connState[c] = "open"
    /\ connState' = [connState EXCEPT ![c] = "closed"]
    /\ usuariosConectados' = PresenceDelete(usuariosConectados, connUser[c], c)
    /\ handlers' = HandlersAfterDisconnect(c)
    /\ rateLimits' = RateLimitsAfterDisconnect(rateLimits, connUser[c])
    /\ last' = Step("disconnect", c, 0, connUser[c])
    /\ out' = Broadcast(c, connUser[c], "offline")
    /\ UNCHANGED <<connUser, now, ticks, mensajes, rateAudit, audit, lastReg>>

(***************************************************************************)
(* Time and the periodic sweep of the rate-limit map.                      *)
(***************************************************************************)
TickSteps == { 1, RATE_LIMIT_WINDOW }
Tick(d) ==
    /\ UNCHANGED searchVars
    /\ ticks < MaxTicks
    /\ ticks' = ticks + 1
    /\ now' = now + d
    /\ last' = Step("tick", 0, 0, "")
    /\ out' = <<>>
    /\ UNCHANGED <<nEvents, connState, connUser, usuariosConectados, rateLimits, mensajes,
                   handlers, rateAudit, audit, lastReg>>

\* the setInterval callback: every window whose resetAt has passed is deleted
sweep_DeletesAtResetAt(limits, t) ==
    [u \in { k \in DOMAIN limits : ~(t >= limits[k].resetAt) } |-> limits[u]]
sweep(limits, t) ==
    [u \in { k \in DOMAIN limits : ~(t > limits[k].resetAt) } |-> limits[u]]

Sweep ==
    /\ UNCHANGED searchVars
    /\ rateLimits' = sweep(rateLimits, now)
    /\ last' = Step("sweep", 0, 0, "")
    /\ out' = <<>>
    /\ UNCHANGED <<nEvents, connState, connUser, usuariosConectados, now, ticks, mensajes,
                   handlers, rateAudit, audit, lastReg>>

(***************************************************************************)
(* The table mensajes and the calls made on it.  A call can take effect or *)
(* fail, and the process does not choose which.  A failed call answers     *)
(* {error} or rejects (the await throws); which of the two is seen by the  *)
(* handler only when it resumes.                                           *)
(***************************************************************************)
DbOutcomes == { "ok", "failed" }
Failures == { "error", "throw" }
\* what the failed call carries: the `error` of the answer, or the exception
\* thrown, holds a message of the store that differs from failure to failure
ErrorDetails == { "violates foreign key constraint", "fetch failed" }
Failed(op, c, id, info, detail) ==
    StepOf(op, c, id, info, To("detail", detail), NullContent)

Row(sender, receiver, contenido, estado) ==
    [sender_id |-> sender, receiver_id |-> receiver, contenido |-> contenido,
     estado |-> estado]

\* what is remembered about a row: whether the receiver was in the presence
\* map when the send_message event was handled, when the handler looked it
\* up, the new_message events emitted for it and to which sockets, the users
\* whose mark-seen update wrote it, and whether an update to 'entregado'
\* wrote it
AuditRow(present) ==
    [presentAtSend |-> present, presentAtLookup |-> FALSE, looked |-> FALSE,
     newMessages |-> 0, newTo |-> {}, seenBy |-> {}, seenWrites |-> 0,
     delivered |-> FALSE]

\* a suspended handler: the event it serves, its socket, the event's `to`
\* (for mark_seen: the sender_id the update answered), where it is suspended,
\* the row it works on, the receiverSocket it found and what its last
\* database call answered
Handler(kind, c, to, pc, id) ==
    [kind |-> kind, conn |-> c, to |-> to, pc |-> pc,
     id |-> id, rs |-> None, res |-> ""]

\* .update({estado}).eq('id', id): the rows the filter matches
MatchesId(id) == { i \in 1..Len(mensajes) : i = id }
\* .update({estado: 'visto'}).eq('id', messageId).eq('receiver_id', userId)
MarkSeenMatches_AnyReceiver(messageId, userId) ==
    { i \in 1..Len(mensajes) : i = messageId }
MarkSeenMatches_NotYetSeen(messageId, userId) ==
    { i \in 1..Len(mensajes) : /\ i = messageId
                               /\ mensajes[i].receiver_id = userId
                               /\ mensajes[i].estado # SEEN }
MarkSeenMatches_OnlyDelivered(messageId, userId) ==
    { i \in 1..Len(mensajes) : /\ i = messageId
                               /\ mensajes[i].receiver_id = userId
                               /\ mensajes[i].estado = DELIVERED }
MarkSeenMatches(messageId, userId) ==
    { i \in 1..Len(mensajes) : i = messageId /\ mensajes[i].receiver_id = userId }
\* .eq('sender_id', otherUserId).eq('receiver_id', currentUserId).neq('estado', 'visto')
ConversationMatches(currentUserId, otherUserId) ==
    { i \in 1..Len(mensajes) : /\ mensajes[i].sender_id = otherUserId
                               /\ mensajes[i].receiver_id = currentUserId
                               /\ mensajes[i].estado # SEEN }
\* the table after .update({estado}) on the rows `ids`
UpdateEstado(ids, estado) ==
    [i \in 1..Len(mensajes) |->
        IF i \in ids THEN [mensajes[i] EXCEPT !.estado = estado] ELSE mensajes[i]]
AuditWrite(ids, estado, by) ==
    [i \in 1..Len(audit) |->
        IF i \in ids
        THEN [audit[i] EXCEPT !.seenBy = IF estado = SEEN THEN @ \cup {by} ELSE @,
                              !.seenWrites = IF estado = SEEN THEN @ + 1 ELSE @,
                              !.delivered = IF estado = DELIVERED THEN TRUE ELSE @]
        ELSE audit[i]]

(***************************************************************************)
(* socket.on('send_message'), up to its first await: the rate limit, the   *)
(* recipient, the content, then the insert.  The insert takes effect in    *)
(* the table here; the handler resumes with its answer in SendAfterInsert. *)
(***************************************************************************)
\* a new suspended handler; the model keeps handlers that differ apart
Suspend(h) == h \notin handlers /\ handlers' = handlers \cup {h}

\* the attempts of a user's window as the specification counts them: a window
\* starts with the first attempt, or with the first attempt made after the
\* window's resetAt (its start + RATE_LIMIT_WINDOW) has passed
AuditAttempt(ra, userId, t) ==
    IF ~MapHas(ra, userId) \/ t > ra[userId].start + RATE_LIMIT_WINDOW
    THEN MapSet(ra, userId, [start |-> t, attempts |-> 1])
    ELSE [ra EXCEPT ![userId].attempts = @ + 1]

SendMessageHandler(c, to, content) ==
    /\ UNCHANGED searchVars
    /\ connState[c] = "open"
    /\ rateAudit' = AuditAttempt(rateAudit, connUser[c], now)
    /\ LET userId == connUser[c]
           rl == checkRateLimit(rateLimits, userId, now)
           sanitizedContent == sanitizeMessage(content)
       IN
       /\ rateLimits' = rl.limits
       /\ IF ~rl.ok
          THEN /\ out' = <<ErrorEvent(c, "Limite de mensajes excedido")>>
               /\ last' = StepOf("send_message", c, 0, "rate_limited", to, content)
               /\ UNCHANGED <<mensajes, handlers, audit>>
          ELSE IF InvalidTo(to)
          THEN /\ out' = <<ErrorEvent(c, "Destinatario invalido")>>
               /\ last' = StepOf("send_message", c, 0, "invalid_to", to, content)
               /\ UNCHANGED <<mensajes, handlers, audit>>
          ELSE IF Falsy(sanitizedContent)
          THEN /\ out' = <<ErrorEvent(c, "Mensaje invalido")>>
               /\ last' = StepOf("send_message", c, 0, "invalid_content", to, content)
               /\ UNCHANGED <<mensajes, handlers, audit>>
          ELSE /\ out' = <<>>
               /\ \E outcome \in DbOutcomes :
                    IF outcome = "ok"
                    THEN /\ mensajes' = Append(mensajes,
                                Row(userId, to.val, sanitizedContent, SENT))
                         /\ audit' = Append(audit,
                                AuditRow(MapHas(usuariosConectados, to.val)))
                         /\ Suspend(Handler("send", c, to.val, "inserted", Len(mensajes) + 1))
                         /\ last' = StepOf("send_message", c, Len(mensajes) + 1, "insert", to, content)
                    ELSE /\ Suspend(Handler("send", c, to.val, "insert_failed", 0))
                         /\ last' = StepOf("send_message", c, 0, "insert", to, content)
                         /\ UNCHANGED <<mensajes, audit>>
    /\ UNCHANGED <<connState, connUser, usuariosConectados, now, ticks, lastReg>>

SendMessage(c, to, content) == ClientEvent /\ SendMessageHandler(c, to, content)

(***************************************************************************)
(* send_message resumes after the insert: the error paths, or the lookup   *)
(* of the receiver in the presence map.  Receiver found: new_message is    *)
(* emitted and the update to 'entregado' is issued (the handler suspends   *)
(* again).  Not found: message_sent is emitted and the handler ends.       *)
(***************************************************************************)
\* if (receiverSocket): the receiver is online
ReceiverOnline_Always(receiverSocket) == TRUE
ReceiverOnline_Never(receiverSocket) == FALSE
ReceiverOnline(receiverSocket) == receiverSocket # None

\* what the handler emits when the insert failed: `if (error) return
\* socket.emit('error', ...)`, or the catch block when the await threw
InsertErrorEvents_AlsoAcks(c, failure, detail) ==
    << ErrorEvent(c, IF failure = "error" THEN "Error al enviar mensaje"
                     ELSE "Error al procesar mensaje"),
       Emit(c, "message_sent", Payload(0, SENT, "", "", NullContent)) >>
InsertErrorEvents_LeaksDetail(c, failure, detail) ==
    << ErrorEvent(c, IF failure = "error" THEN detail
                     ELSE "Error al procesar mensaje") >>
\* `detail` goes to console.error and nowhere else
InsertErrorEvents(c, failure, detail) ==
    << ErrorEvent(c, IF failure = "error" THEN "Error al enviar mensaje"
                     ELSE "Error al procesar mensaje") >>

SendAfterInsert(h) ==
    /\ UNCHANGED searchVars
    /\ h \in handlers
    /\ h.kind = "send"
    /\ h.pc \in { "inserted", "insert_failed" }
    /\ IF h.pc = "insert_failed"
       THEN /\ \E failure \in Failures, detail \in ErrorDetails :
                 /\ out' = InsertErrorEvents(h.conn, failure, detail)
                 /\ last' = Failed("send_done", h.conn, 0, "insert_" \o failure, detail)
            /\ handlers' = handlers \ {h}
            /\ UNCHANGED audit
       ELSE LET receiverSocket == MapGet(usuariosConectados, h.to)
                row == mensajes[h.id]
            IN
            IF ReceiverOnline(receiverSocket)
            THEN /\ out' = <<Emit(receiverSocket, "new_message",
                                  Payload(h.id, "", connUser[h.conn], "", row.contenido))>>
                 /\ handlers' = (handlers \ {h}) \cup
                        { [h EXCEPT !.pc = "updating", !.rs = receiverSocket] }
                 /\ audit' = [audit EXCEPT ![h.id].looked = TRUE,
                                           ![h.id].presentAtLookup = receiverSocket # None,
                                           ![h.id].newMessages = @ + 1,
                                           ![h.id].newTo = @ \cup {receiverSocket}]
                 /\ last' = Step("send_lookup", h.conn, h.id, "online")
            ELSE /\ out' = <<Emit(h.conn, "message_sent",
                                  Payload(h.id, SENT, "", h.to, row.contenido))>>
                 /\ handlers' = handlers \ {h}
                 /\ audit' = [audit EXCEPT ![h.id].looked = TRUE,
                                           ![h.id].presentAtLookup = receiverSocket # None]
                 /\ last' = Step("send_done", h.conn, h.id, "offline")
    /\ UNCHANGED <<nEvents, connState, connUser, usuariosConectados, rateLimits, now, ticks,
                   mensajes, rateAudit, lastReg>>

(***************************************************************************)
(* The update to 'entregado' of a suspended send_message takes effect:     *)
(* .update({estado: 'entregado'}).eq('id', newMessage.id).  The handler    *)
(* does not read the answer; only a rejected promise changes its course.   *)
(***************************************************************************)
DbUpdateDelivered(h, outcome) ==
    /\ UNCHANGED searchVars
    /\ h \in handlers
    /\ h.kind = "send"
    /\ h.pc = "updating"
    /\ IF outcome = "ok"
       THEN /\ mensajes' = UpdateEstado(MatchesId(h.id), DELIVERED)
            /\ audit' = AuditWrite(MatchesId(h.id), DELIVERED, connUser[h.conn])
       ELSE UNCHANGED <<mensajes, audit>>
    /\ handlers' = (handlers \ {h}) \cup { [h EXCEPT !.pc = "updated", !.res = outcome] }
    /\ last' = Step("db_update", h.conn, h.id, outcome)
    /\ out' = <<>>
    /\ UNCHANGED <<nEvents, connState, connUser, usuariosConectados, rateLimits, now, ticks,
                   rateAudit, lastReg>>

(***************************************************************************)
(* send_message resumes after the update: message_delivered, then          *)
(* message_sent carrying 'entregado' (receiverSocket was found).           *)
(***************************************************************************)
\* the events emitted to the sender after the update, in the order of the
\* code: message_delivered (164-167), then message_sent (175-181)
DeliveredEvents_SentFirst(h) ==
    << Emit(h.conn, "message_sent",
            Payload(h.id, IF h.rs # None THEN DELIVERED ELSE SENT, "",
                    h.to, mensajes[h.id].contenido)),
       Emit(h.conn, "message_delivered", Payload(h.id, "", "", "", NullContent)) >>
DeliveredEvents_NoAck(h) ==
    << Emit(h.conn, "message_delivered", Payload(h.id, "", "", "", NullContent)) >>
DeliveredEvents_ToSender(h) ==
    << Emit(h.conn, "message_delivered", Payload(h.id, "", "", "", NullContent)),
       Emit(h.conn, "message_sent",
            Payload(h.id, IF h.rs # None THEN DELIVERED ELSE SENT, "",
                    connUser[h.conn], mensajes[h.id].contenido)) >>
DeliveredEvents(h) ==
    << Emit(h.conn, "message_delivered", Payload(h.id, "", "", "", NullContent)),
       Emit(h.conn, "message_sent",
            Payload(h.id, IF h.rs # None THEN DELIVERED ELSE SENT, "",
                    h.to, mensajes[h.id].contenido)) >>

\* the catch block of send_message, entered when the update threw
UpdateErrorEvents(c, detail) == << ErrorEvent(c, "Error al procesar mensaje") >>

SendAfterUpdate(h) ==
    /\ UNCHANGED searchVars
    /\ h \in handlers
    /\ h.kind = "send"
    /\ h.pc = "updated"
    /\ handlers' = handlers \ {h}
    /\ \E answer \in (IF h.res = "ok" THEN {"ok"} ELSE Failures) :
         IF answer = "throw"
         THEN \E detail \in ErrorDetails :
              /\ out' = UpdateErrorEvents(h.conn, detail)
              /\ last' = Failed("send_done", h.conn, h.id, "update_throw", detail)
         ELSE /\ out' = DeliveredEvents(h)
              /\ last' = Step("send_done", h.conn, h.id, "delivered_" \o answer)
    /\ UNCHANGED <<nEvents, connState, connUser, usuariosConectados, rateLimits, now, ticks,
                   mensajes, rateAudit, audit, lastReg>>

(***************************************************************************)
(* socket.on('mark_seen'), up to its await: the update to 'visto' of the   *)
(* rows with this id addressed to the caller takes effect in the table.    *)
(* .select('sender_id').single() answers the row when exactly one row was  *)
(* updated and an error otherwise.                                         *)
(***************************************************************************)
\* the messageId of an event: 0 when the event has none, the id of a row, or
\* an id that no row has
MessageIds == 0..(Len(mensajes) + 1)

single(ids) ==
    IF Cardinality(ids) = 1
    THEN [data |-> CHOOSE i \in ids : TRUE, error |-> FALSE]
    ELSE [data |-> None, error |-> TRUE]

MarkSeen(c, messageId, outcome) ==
    /\ UNCHANGED searchVars
    /\ ClientEvent
    /\ connState[c] = "open"
    /\ IF messageId = 0
       THEN /\ outcome = "ok"
            /\ out' = <<ErrorEvent(c, "ID de mensaje requerido")>>
            /\ last' = Step("mark_seen", c, 0, "invalid")
            /\ UNCHANGED <<mensajes, audit, handlers>>
       ELSE /\ out' = <<>>
            /\ last' = Step("mark_seen", c, messageId, outcome)
            /\ IF outcome = "ok"
               THEN LET ids == MarkSeenMatches(messageId, connUser[c])
                        r == single(ids)
                    IN
                    /\ mensajes' = UpdateEstado(ids, SEEN)
                    /\ audit' = AuditWrite(ids, SEEN, connUser[c])
                    /\ Suspend([Handler("seen", c,
                                         IF r.error THEN "" ELSE mensajes[r.data].sender_id,
                                         "seen_updated", messageId)
                                   EXCEPT !.res = IF r.error THEN "error" ELSE "ok"])
               ELSE /\ Suspend([Handler("seen", c, "", "seen_updated", messageId)
                                   EXCEPT !.res = outcome])
                    /\ UNCHANGED <<mensajes, audit>>
    /\ UNCHANGED <<connState, connUser, usuariosConectados, rateLimits, now, ticks,
                   rateAudit, lastReg>>

\* what mark_seen emits when the update answered an error (`if (error ||
\* !message)`) or threw (the catch block)
SeenErrorEvents(c, failure, detail) ==
    << ErrorEvent(c, IF failure = "error" THEN "Error al actualizar estado"
                     ELSE "Error al procesar solicitud") >>

\* mark_seen resumes after the update: an error event, or message_seen to
\* the sender's socket when the sender is in the presence map
MarkSeenResume(h) ==
    /\ UNCHANGED searchVars
    /\ h \in handlers
    /\ h.kind = "seen"
    /\ handlers' = handlers \ {h}
    /\ IF h.res = "failed"
       THEN \E failure \in Failures, detail \in ErrorDetails :
              /\ out' = SeenErrorEvents(h.conn, failure, detail)
              /\ last' = Failed("seen_done", h.conn, h.id, failure, detail)
       ELSE IF h.res = "error"
       THEN /\ out' = SeenErrorEvents(h.conn, "error", "")
            /\ last' = Step("seen_done", h.conn, h.id, "error")
       ELSE LET senderSocket == MapGet(usuariosConectados, h.to) IN
            /\ out' = IF senderSocket # None
                      THEN <<Emit(senderSocket, "message_seen",
                                  Payload(h.id, "", "", "", NullContent))>>
                      ELSE <<>>
            /\ last' = Step("seen_done", h.conn, h.id, "ok")
    /\ UNCHANGED <<nEvents, connState, connUser, usuariosConectados, rateLimits, now, ticks,
                   mensajes, rateAudit, audit, lastReg>>

(***************************************************************************)
(* PUT /messages/:userId/seen: the authenticated user marks every message  *)
(* the other user sent to it as 'visto'.                                   *)
(***************************************************************************)
HttpMarkSeen(currentUserId, otherUserId, outcome) ==
    /\ UNCHANGED searchVars
    /\ ClientEvent
    /\ IF outcome = "ok"
       THEN LET ids == ConversationMatches(currentUserId, otherUserId) IN
            /\ mensajes' = UpdateEstado(ids, SEEN)
            /\ audit' = AuditWrite(ids, SEEN, currentUserId)
       ELSE UNCHANGED <<mensajes, audit>>
    /\ last' = Step("http_seen", 0, 0, currentUserId)
    /\ out' = <<>>
    /\ UNCHANGED <<connState, connUser, usuariosConectados, rateLimits, now, ticks,
                   handlers, rateAudit, lastReg>>

(***************************************************************************)
(* socket.on('typing') and socket.on('stop_typing'): the signal is relayed *)
(* to the socket the presence map holds for `to`, if there is one.         *)
(***************************************************************************)
TypingSignals == { "typing", "stop_typing" }
Relayed(signal) == IF signal = "typing" THEN "user_typing" ELSE "user_stop_typing"
\* !to: undefined and the empty string are falsy
NoTo(to) == to.type = "undefined" \/ (to.type = "string" /\ to.val = "")

TypingEvents_FromPayload(c, signal, to) ==
    IF NoTo(to) THEN <<>>
    ELSE LET receiverSocket ==
                 IF to.type = "string" THEN MapGet(usuariosConectados, to.val) ELSE None
         IN IF receiverSocket # None
            THEN << Emit(receiverSocket, Relayed(signal),
                         Payload(0, "", to.val, "", NullContent)) >>
            ELSE <<>>

TypingEvents_ErrorWhenAbsent(c, signal, to) ==
    IF NoTo(to) THEN <<>>
    ELSE LET receiverSocket ==
                 IF to.type = "string" THEN MapGet(usuariosConectados, to.val) ELSE None
         IN IF receiverSocket # None
            THEN << Emit(receiverSocket, Relayed(signal),
                         Payload(0, "", connUser[c], "", NullContent)) >>
            ELSE << ErrorEvent(c, "Usuario no conectado") >>

\* the events the handler emits; the keys of the map are strings, so a `to`
\* that is not a string finds no socket
TypingEvents(c, signal, to) ==
    IF NoTo(to) THEN <<>>
    ELSE LET receiverSocket ==
                 IF to.type = "string" THEN MapGet(usuariosConectados, to.val) ELSE None
         IN IF receiverSocket # None
            THEN << Emit(receiverSocket, Relayed(signal),
                         Payload(0, "", connUser[c], "", NullContent)) >>
            ELSE <<>>

Typing(c, signal, to) ==
    /\ UNCHANGED searchVars
    /\ ClientEvent
    /\ connState[c] = "open"
    /\ out' = TypingEvents(c, signal, to)
    /\ last' = StepOf(signal, c, 0, "", to, NullContent)
    /\ UNCHANGED <<connState, connUser, usuariosConectados, rateLimits, now, ticks,
                   mensajes, handlers, rateAudit, audit, lastReg>>

(***************************************************************************)
(* The private chat: every interleaving of the handlers.                   *)
(***************************************************************************)
Next ==
    \/ \E c \in Conns, token \in Tokens : Connect(c, token)
    \/ \E c \in Conns : Disconnect(c)
    \/ \E c \in Conns, to \in Tos, content \in Contents : SendMessage(c, to, content)
    \/ \E h \in handlers : SendAfterInsert(h)
    \/ \E h \in handlers, outcome \in DbOutcomes : DbUpdateDelivered(h, outcome)
    \/ \E h \in handlers : SendAfterUpdate(h)
    \/ \E c \in Conns, messageId \in MessageIds, outcome \in DbOutcomes :
          MarkSeen(c, messageId, outcome)
    \/ \E h \in handlers : MarkSeenResume(h)
    \/ \E u \in Users, other \in Users, outcome \in DbOutcomes : HttpMarkSeen(u, other, outcome)
    \/ \E c \in Conns, signal \in TypingSignals, to \in Tos : Typing(c, signal, to)

Spec == Init /\ [][Next]_vars

(***************************************************************************)
(* The rate limiter over a long run of one user: a socket of "A" is open   *)
(* (the state Spec reaches by Connect(1, "tok-A")), the clock advances,    *)
(* the sweep runs, and the client sends send_message events that the       *)
(* handler rejects before its insert (rate limit, no recipient, or an      *)
(* invalid content),                                                       *)
(* so that the table stays as it is while the attempts are counted.        *)
(***************************************************************************)
InitRate ==
    /\ connState = [c \in Conns |-> IF c = 1 THEN "open" ELSE "idle"]
    /\ connUser = [c \in Conns |-> IF c = 1 THEN "A" ELSE ""]
    /\ usuariosConectados = MapSet(EmptyMap, "A", 1)
    /\ rateLimits = EmptyMap
    /\ now = 0
    /\ ticks = 0
    /\ mensajes = <<>>
    /\ handlers = {}
    /\ nEvents = 1
    /\ rateAudit = EmptyMap
    /\ audit = <<>>
    /\ lastReg = MapSet(EmptyMap, "A", 1)
    /\ last = StepOf("connection", 1, 0, "A", To("token", "tok-A"), NullContent)
    /\ out = <<>>
    /\ SearchInit

\* the attempts the model lets a user make in one window
AttemptsLeft(userId) ==
    IF ~MapHas(rateAudit, userId) THEN TRUE
    ELSE IF now > rateAudit[userId].start + RATE_LIMIT_WINDOW THEN TRUE
    ELSE rateAudit[userId].attempts < RATE_LIMIT_MAX + MaxRejects

RejectedSend(c, to, content) ==
    /\ connState[c] = "open"
    /\ IF ~checkRateLimit(rateLimits, connUser[c], now).ok THEN TRUE
       ELSE IF InvalidTo(to) THEN TRUE ELSE Falsy(sanitizeMessage(content))
    /\ AttemptsLeft(connUser[c])
    /\ SendMessageHandler(c, to, content)
    /\ UNCHANGED nEvents

NextRate ==
    \/ \E d \in TickSteps : Tick(d)
    \/ Sweep
    \/ \E c \in Conns, to \in Tos, content \in Contents : RejectedSend(c, to, content)

SpecRate == InitRate /\ [][NextRate]_vars

(***************************************************************************)
(* The user search, GET /search of routes/users.js.  A query string is the *)
(* word it holds, whether it has upper-case letters, and the white space   *)
(* around it.  Requests are counted by nEvents.                            *)
(***************************************************************************)
Query(word, caps, pad) == [word |-> word, caps |-> caps, pad |-> pad]
toLowerCase(q) == [q EXCEPT !.caps = FALSE]
Words == 1..(maxSize + 1)
Queries == { Query(w, FALSE, 0) : w \in Words } \cup { Query(1, TRUE, 1) }
\* The words in use: those of the entries of the cache and of the searches
\* awaited.  The cache keeps nothing of any other word, so one such word is
\* like another and the requests of the model take the first.
InUse == { cache[i].key.q.word : i \in 1..Len(cache) } \cup { r.q.word : r \in DOMAIN pending }
Known(query) ==
    \/ query.word \in InUse
    \/ query.word \in Words \ InUse /\ \A w \in Words \ InUse : query.word <= w
\* one more request or call of the search is handled
SearchEvent == nEvents < maxSize + 2 /\ nEvents' = nEvents + 1
\* req.pagination of the requests of the model: page 1, limit 10
Filters == [page |-> 1, limit |-> 10]

(***************************************************************************)
(* class SearchCache.  A JavaScript Map iterates in insertion order, and   *)
(* Map.set of a key that is present keeps the key's place: the cache is the *)
(* sequence of its entries in that order.                                  *)
(***************************************************************************)
ttl == 5 * 60 * 1000
generateKey(query, filters) == [q |-> trim(toLowerCase(query)), f |-> filters]
Entry(key, data, timestamp) == [key |-> key, data |-> data, timestamp |-> timestamp]
\* the place of `key` in the Map, 0 when it is not there
Index(c, key) ==
    IF \E i \in 1..Len(c) : c[i].key = key
    THEN CHOOSE i \in 1..Len(c) : c[i].key = key
    ELSE 0
CacheDelete(c, key) == SelectSeq(c, LAMBDA e : e.key # key)
CacheSet(c, key, e) ==
    IF Index(c, key) = 0 THEN Append(c, e) ELSE [c EXCEPT ![Index(c, key)] = e]

get_ServesExpired(c, h, m, query, filters, t) ==
    LET i == Index(c, generateKey(query, filters)) IN
    IF i = 0 THEN [data |-> NullData, cache |-> c, hits |-> h, misses |-> m + 1]
    ELSE [data |-> c[i].data, cache |-> c, hits |-> h + 1, misses |-> m]
\* get(query, filters) at time t: what it returns (NullData for null) and what
\* it leaves in cache, hits and misses
get(c, h, m, query, filters, t) ==
    LET key == generateKey(query, filters)
        i == Index(c, key)
    IN
    IF i = 0 THEN [data |-> NullData, cache |-> c, hits |-> h, misses |-> m + 1]
    ELSE IF t - c[i].timestamp > ttl
         THEN [data |-> NullData, cache |-> CacheDelete(c, key), hits |-> h, misses |-> m + 1]
         ELSE [data |-> c[i].data, cache |-> c, hits |-> h + 1, misses |-> m]

set_EvictsWhenOver(c, query, data, filters, t) ==
    LET key == generateKey(query, filters)
        full == Len(c) > maxSize
        firstKey == IF Len(c) > 0 THEN c[1].key ELSE NoKey
    IN [cache |-> CacheSet(IF full THEN CacheDelete(c, firstKey) ELSE c,
                           key, Entry(key, data, t)),
        evicted |-> IF full THEN firstKey ELSE NoKey]
\* set(query, data, filters) at time t: the cache it leaves, and the key it
\* deleted to make room (NoKey when it deleted none)
set(c, query, data, filters, t) ==
    LET key == generateKey(query, filters)
        full == Len(c) >= maxSize
        firstKey == IF Len(c) > 0 THEN c[1].key ELSE NoKey
    IN [cache |-> CacheSet(IF full THEN CacheDelete(c, firstKey) ELSE c,
                           key, Entry(key, data, t)),
        evicted |-> IF full THEN firstKey ELSE NoKey]

invalidate(c, query, filters) == CacheDelete(c, generateKey(query, filters))
cleanExpired(c, t) == SelectSeq(c, LAMBDA e : ~(t - e.timestamp > ttl))

\* the rows the route reads for a query at a time
\* body.data of the route: the profiles that match the query at the time of
\* the select, without the one of the requesting user (.neq('id',
\* currentUserId))
Data(userId, query, t) ==
    [rows |-> trim(toLowerCase(query)).word, at |-> t, neq |-> userId]
\* the requests that are past a cache miss, as a bag of their users and
\* queries
Request(userId, query) == [user |-> userId, q |-> query]
Waiting(userId, query) == MapGet(pending, Request(userId, query))

(***************************************************************************)
(* cacheMiddleware, for a request that the middleware before it let        *)
(* through: a hit is answered from the cache; after a miss res.json is     *)
(* wrapped and the route handler runs up to its await.                     *)
(***************************************************************************)
CacheMiddleware(userId, query) ==
    /\ SearchEvent
    /\ Known(query)
    /\ LET r == get(cache, hits, misses, query, Filters, now) IN
       /\ cache' = r.cache
       /\ hits' = r.hits
       /\ misses' = r.misses
       /\ ret' = RetTo(userId, "get", generateKey(query, Filters), r.data,
                        IF Len(r.cache) < Len(cache) THEN generateKey(query, Filters)
                        ELSE NoKey)
       /\ pending' = IF r.data # NullData THEN pending
                     ELSE MapSet(pending, Request(userId, query),
                                 Waiting(userId, query) + 1)
    /\ UNCHANGED <<chatVars, now, ticks, last, out, recentSearches, searchAudit>>

\* the route handler answers: the wrapped res.json stores body.data when
\* body.success, and stores nothing for the body of an error
RouteAnswers(userId, query, success) ==
    /\ Waiting(userId, query) > 0
    /\ pending' = IF Waiting(userId, query) = 1
                  THEN MapDelete(pending, Request(userId, query))
                  ELSE MapSet(pending, Request(userId, query), Waiting(userId, query) - 1)
    /\ IF success
       THEN LET r == set(cache, query, Data(userId, query, now), Filters, now) IN
            /\ cache' = r.cache
            /\ ret' = RetTo(userId, "set", generateKey(query, Filters),
                            Data(userId, query, now), r.evicted)
       ELSE /\ cache' = cache
            /\ ret' = RetTo(userId, "error", generateKey(query, Filters), NullData, NoKey)
    /\ UNCHANGED <<chatVars, nEvents, now, ticks, last, out, hits, misses,
                   recentSearches, searchAudit>>

\* searchCache.invalidate and searchCache.clear, called by code that imports
\* the exported instance
Invalidate(query) ==
    /\ SearchEvent
    /\ generateKey(query, Filters) \in { cache[i].key : i \in 1..Len(cache) }
    /\ cache' = invalidate(cache, query, Filters)
    /\ ret' = Ret("invalidate", generateKey(query, Filters), NullData, NoKey)
    /\ UNCHANGED <<chatVars, now, ticks, last, out, hits, misses, pending,
                   recentSearches, searchAudit>>

Clear ==
    /\ SearchEvent
    /\ Len(cache) > 0
    /\ cache' = <<>>
    /\ hits' = 0
    /\ misses' = 0
    /\ ret' = Ret("clear", NoKey, NullData, NoKey)
    /\ UNCHANGED <<chatVars, now, ticks, last, out, pending,
                   recentSearches, searchAudit>>

\* the setInterval callback of the module
CleanExpired ==
    /\ cache' = cleanExpired(cache, now)
    /\ ret' = Ret("cleanExpired", NoKey, NullData, NoKey)
    /\ UNCHANGED <<chatVars, nEvents, now, ticks, last, out, hits, misses, pending,
                   recentSearches, searchAudit>>

\* the clock advances to where an entry is as old as it may be, or past it
CacheTickSteps == { ttl, ttl + 1 }

NextCache ==
    \/ \E d \in CacheTickSteps : ticks < MaxTicks - 2 /\ Tick(d)
    \/ \E query \in Queries : CacheMiddleware("A", query)
    \/ \E query \in Queries, success \in BOOLEAN : RouteAnswers("A", query, success)
    \/ \E query \in Queries : Invalidate(query)
    \/ Clear
    \/ CleanExpired

SpecCache == Init /\ [][NextCache]_vars

(***************************************************************************)
(* GET /search asked by several users.  The table profiles has one row per *)
(* user; the first word is part of every username and no other word is     *)
(* part of any.                                                            *)
(***************************************************************************)
Profiles(word) == IF word = 1 THEN Users ELSE {}
\* the users whose profiles a body.data holds
Found(data) == Profiles(data.rows) \ { data.neq }
SearchQueries == { Query(1, FALSE, 0), Query(1, TRUE, 1), Query(2, FALSE, 0) }

NextSearch ==
    \/ \E userId \in Users, query \in SearchQueries : CacheMiddleware(userId, query)
    \/ \E userId \in Users, query \in SearchQueries, success \in BOOLEAN :
          RouteAnswers(userId, query, success)
    \/ ticks < 1 /\ Tick(ttl + 1)

SpecSearch == Init /\ [][NextSearch]_vars

(***************************************************************************)
(* preventDuplicateSearches of middleware/searchValidation.js, for a       *)
(* request that validateSearchQuery let through (req.query.q is a string). *)
(***************************************************************************)
SEARCH_COOLDOWN == 2000
CleanupSize == 1000
CleanupAge == 5 * 60 * 1000
DupQueries == { Query(1, FALSE, 0), Query(1, TRUE, 1), Query(2, FALSE, 0) }
\* `${userId}_${searchQuery}`: a user id holds no "_"
searchKey(userId, query) == [user |-> userId, q |-> trim(toLowerCase(query))]
\* `lastSearch && ...`: undefined and 0 are falsy
Truthy(timestamp) == timestamp # None
\* the entries left by the loop that runs when the map holds more than
\* CleanupSize keys
RecentKept(m, t) ==
    IF Cardinality(DOMAIN m) > CleanupSize
    THEN [k \in { x \in DOMAIN m : ~(m[x] < t - CleanupAge) } |-> m[k]]
    ELSE m

preventDuplicateSearches_RefreshesOnBlock(m, userId, query, t) ==
    LET key == searchKey(userId, query)
        lastSearch == MapGet(m, key)
    IN
    IF Truthy(lastSearch) /\ t - lastSearch < SEARCH_COOLDOWN
    THEN [blocked |-> TRUE, map |-> MapSet(m, key, t)]
    ELSE [blocked |-> FALSE, map |-> RecentKept(MapSet(m, key, t), t)]
\* whether the request is answered 429, and the map the call leaves
preventDuplicateSearches(m, userId, query, t) ==
    LET key == searchKey(userId, query)
        lastSearch == MapGet(m, key)
    IN
    IF Truthy(lastSearch) /\ t - lastSearch < SEARCH_COOLDOWN
    THEN [blocked |-> TRUE, map |-> m]
    ELSE [blocked |-> FALSE, map |-> RecentKept(MapSet(m, key, t), t)]

Search(userId, query) ==
    /\ ClientEvent
    /\ LET r == preventDuplicateSearches(recentSearches, userId, query, now)
           key == searchKey(userId, query)
       IN
       /\ recentSearches' = r.map
       /\ searchAudit' = IF r.blocked THEN searchAudit ELSE MapSet(searchAudit, key, now)
       /\ ret' = Ret(IF r.blocked THEN "429" ELSE "next", key, NullData, NoKey)
    /\ UNCHANGED <<chatVars, now, ticks, last, out, cache, hits, misses, pending>>

\* Date.now() is a time after 1970: the clock of this specification starts
\* above 0
InitDup ==
    /\ connState = [c \in Conns |-> "idle"]
    /\ connUser = [c \in Conns |-> ""]
    /\ usuariosConectados = EmptyMap
    /\ rateLimits = EmptyMap
    /\ now = 1
    /\ ticks = 0
    /\ mensajes = <<>>
    /\ handlers = {}
    /\ nEvents = 0
    /\ rateAudit = EmptyMap
    /\ audit = <<>>
    /\ lastReg = EmptyMap
    /\ last = Step("init", 0, 0, "")
    /\ out = <<>>
    /\ SearchInit

DupTickSteps == { 1, SEARCH_COOLDOWN - 1 }

NextDup ==
    \/ \E d \in DupTickSteps : Tick(d)
    \/ \E userId \in Users, query \in DupQueries : Search(userId, query)

SpecDup == InitDup /\ [][NextDup]_vars

(***************************************************************************)
(* The claims.                                                             *)
(***************************************************************************)
Rows == 1..Len(mensajes)
\* the step taken last ended a send_message handler that had inserted a row
SendDone == last.op = "send_done" /\ last.id \in Rows
IsError(e, c) == e.ev = "error" /\ e.to = c

\* C1: as long as the socket registered last for a user is connected, the
\* presence map maps the user to it: a second registration replaces the
\* first, and the disconnect of the first socket does not remove the second.
C1_StaleDisconnectKeepsNewEntry ==
    \A u \in DOMAIN lastReg :
        connState[lastReg[u]] = "open" => MapGet(usuariosConectados, u) = lastReg[u]

\* C2: no step moves the estado of a row backwards along
\* enviado < entregado < visto.
C2_StateNeverRegresses ==
    [][\A i \in Rows : Rank(mensajes'[i].estado) >= Rank(mensajes[i].estado)]_vars

\* C3: a mark-seen update is written to a row only by the row's receiver (so
\* a row is 'visto' only if its receiver marked it seen), and a mark_seen of
\* a user that is not the receiver of the row ends with exactly one event,
\* an error, to the caller.
C3_OnlyReceiverMarksSeen ==
    /\ \A i \in Rows :
          /\ audit[i].seenBy \subseteq { mensajes[i].receiver_id }
          /\ mensajes[i].estado = SEEN => mensajes[i].receiver_id \in audit[i].seenBy
    /\ ( /\ last.op = "seen_done"
         /\ last.id \in Rows
         /\ mensajes[last.id].receiver_id # connUser[last.conn] )
       => /\ Len(out) = 1
          /\ IsError(out[1], last.conn)
          /\ connUser[last.conn] \notin audit[last.id].seenBy

\* a mark_seen of a user that is not the receiver of an existing row has ended
C3_Witness ==
    /\ last.op = "seen_done"
    /\ last.id \in Rows
    /\ mensajes[last.id].receiver_id # connUser[last.conn]
    /\ mensajes[last.id].estado = SENT
    /\ Len(out) = 1

\* C4 as claimed: a row is 'entregado' only if its receiver was in the
\* presence map when the send_message event was handled.
C4_DeliveredOnlyIfPresentAtSend ==
    \A i \in Rows : mensajes[i].estado = DELIVERED => audit[i].presentAtSend

\* C4 as amended: a row is 'entregado' only if its receiver was in the
\* presence map when the handler looked it up, after the insert returned,
\* and new_message was emitted to the socket found there.
C4_DeliveredOnlyIfPresentAtLookup ==
    \A i \in Rows :
        mensajes[i].estado = DELIVERED =>
            /\ audit[i].looked
            /\ audit[i].presentAtLookup
            /\ audit[i].newMessages = 1

\* the receiver registered while the handler was suspended on the insert
C4_Witness ==
    \E i \in Rows : /\ mensajes[i].estado = DELIVERED
                    /\ ~audit[i].presentAtSend
                    /\ audit[i].presentAtLookup

\* a send_message handler has ended whose receiver was in the presence map at
\* the lookup and whose update to 'entregado' took effect
C5_Case ==
    /\ SendDone
    /\ audit[last.id].presentAtLookup
    /\ last.info \notin { "delivered_error", "update_throw" }

\* exactly one new_message was emitted for the row, to the socket the
\* presence map held for the receiver
C5_OneNewMessage ==
    /\ audit[last.id].newMessages = 1
    /\ \E c \in Conns : /\ audit[last.id].newTo = {c}
                        /\ connUser[c] = mensajes[last.id].receiver_id

\* C5 as claimed: when such a handler ends the row is 'entregado' and exactly
\* one new_message was emitted for it to the receiver's socket.
C5_PresentThenDelivered ==
    C5_Case => mensajes[last.id].estado = DELIVERED /\ C5_OneNewMessage

\* C5 as amended: when such a handler ends the row is 'entregado', or 'visto'
\* when the receiver has marked it seen in the meantime, and exactly one
\* new_message was emitted for it to the receiver's socket.
C5_PresentThenDeliveredOrSeen ==
    C5_Case =>
        /\ mensajes[last.id].estado \in { DELIVERED, SEEN }
        /\ mensajes[last.id].estado = SEEN =>
              mensajes[last.id].receiver_id \in audit[last.id].seenBy
        /\ C5_OneNewMessage

C5_Witness == C5_Case /\ mensajes[last.id].estado = DELIVERED /\ Len(out) = 2

\* a send_message handler has ended whose receiver was not in the presence
\* map at the lookup
C6_Case == SendDone /\ audit[last.id].looked /\ ~audit[last.id].presentAtLookup

C6_SentAck ==
    Emit(last.conn, "message_sent",
         Payload(last.id, SENT, "", mensajes[last.id].receiver_id,
                 mensajes[last.id].contenido))

\* C6 as claimed: when such a handler ends the row is 'enviado', no event
\* other than the sender's own acknowledgement was emitted to a socket of the
\* receiver, no message_delivered was emitted and the sender got message_sent
\* carrying 'enviado'.
C6_AbsentThenSent ==
    C6_Case =>
        /\ mensajes[last.id].estado = SENT
        /\ \A k \in 1..Len(out) :
              \/ out[k] = C6_SentAck
              \/ /\ connUser[out[k].to] # mensajes[last.id].receiver_id
                 /\ out[k].ev # "message_delivered"
        /\ \E k \in 1..Len(out) : out[k] = C6_SentAck

\* C6 as amended: when such a handler ends it has written nothing since its
\* insert (the row is 'enviado', or 'visto' when the receiver has marked it
\* seen in the meantime), no new_message was emitted for the row, and the
\* only event of the handler's last step is message_sent carrying 'enviado',
\* to the socket that sent the message.
C6_AbsentThenUntouched ==
    C6_Case =>
        /\ mensajes[last.id].estado \in { SENT, SEEN }
        /\ mensajes[last.id].estado = SEEN =>
              mensajes[last.id].receiver_id \in audit[last.id].seenBy
        /\ audit[last.id].newMessages = 0
        /\ out = << C6_SentAck >>

C6_Witness == C6_Case /\ mensajes[last.id].estado = SENT /\ out = << C6_SentAck >>

\* a step that handled a send_message event (every attempt is counted)
SendStep == rateAudit' # rateAudit
Sender == connUser[last'.conn]
RateLimitError == ErrorEvent(last'.conn, "Limite de mensajes excedido")

\* C7: of the attempts a user makes in one window (from its first attempt
\* until RATE_LIMIT_WINDOW has passed since), the first RATE_LIMIT_MAX pass
\* the rate limit and every later one is answered with the rate-limit error
\* alone; an attempt made after the window's resetAt has passed is not
\* rejected by the rate limit.
C7_RejectsAfterMaxUntilReset ==
    [][SendStep =>
        /\ (last'.info = "rate_limited") <=> (rateAudit'[Sender].attempts > RATE_LIMIT_MAX)
        /\ last'.info = "rate_limited" => out' = << RateLimitError >>
        /\ (MapHas(rateLimits, Sender) /\ now > rateLimits[Sender].resetAt)
              => last'.info # "rate_limited"]_vars

\* attempt RATE_LIMIT_MAX + 1 of a window has been rejected by the rate limit
C7_Witness ==
    /\ last.op = "send_message"
    /\ last.info = "rate_limited"
    /\ rateAudit[connUser[last.conn]].attempts = RATE_LIMIT_MAX + 1
    /\ rateLimits[connUser[last.conn]].count = RATE_LIMIT_MAX

\* C8: an attempt rejected by the rate limit leaves the table of windows as
\* it was: neither the count nor the resetAt of the user's window changes.
C8_RejectedAttemptLeavesWindow ==
    [][(SendStep /\ last'.info = "rate_limited") => rateLimits' = rateLimits]_vars

\* a second attempt in a row has been rejected, the window still as it was
C8_Witness ==
    /\ last.op = "send_message"
    /\ last.info = "rate_limited"
    /\ rateAudit[connUser[last.conn]].attempts = RATE_LIMIT_MAX + 2
    /\ rateLimits[connUser[last.conn]].count = RATE_LIMIT_MAX
    /\ rateLimits[connUser[last.conn]].resetAt = rateAudit[connUser[last.conn]].start + RATE_LIMIT_WINDOW

\* C9: a send_message rejected for its `to` changes neither the table of
\* windows of the rate limit, nor the presence map, nor the table mensajes.
C9_InvalidToHasNoSideEffects ==
    [][(SendStep /\ last'.info = "invalid_to") =>
        /\ rateLimits' = rateLimits
        /\ usuariosConectados' = usuariosConectados
        /\ mensajes' = mensajes]_vars

\* the content of the send_message event handled by the step
BadContent(c) == ~c.str \/ trim(c).len = 0 \/ trim(c).len > MaxContentLength
\* the step has answered with one event, an error to the sender, and has
\* made no call on the table
RejectedBeforeInsert ==
    /\ mensajes' = mensajes
    /\ handlers' = handlers
    /\ Len(out') = 1
    /\ IsError(out'[1], last'.conn)

\* C10 as claimed: a send_message whose content is not a string, is empty
\* after trim() or is longer than 5000 after trim() is answered with one
\* error to the sender and no call on the table, and a content of length 5000
\* after trim() is never answered with the invalid-message error.
C10_RejectsBadContentOnly ==
    [][SendStep =>
        /\ BadContent(last'.content) => RejectedBeforeInsert
        /\ (last'.content.str /\ trim(last'.content).len = MaxContentLength)
              => last'.info # "invalid_content"]_vars

\* C10 as amended: such a content is answered with one error to the sender
\* and no call on the table, and a content of length 5000 after trim() is
\* answered with the invalid-message error only when xss() leaves nothing of
\* it.
C10_RejectsBadOrEmptiedContent ==
    [][SendStep =>
        /\ BadContent(last'.content) => RejectedBeforeInsert
        /\ (last'.content.str /\ trim(last'.content).len = MaxContentLength)
              => ( (last'.info = "invalid_content")
                     => xss(trim(last'.content)).len = 0 )
        /\ ( /\ last'.content.str
             /\ trim(last'.content).len = MaxContentLength
             /\ xss(trim(last'.content)).len > 0
             /\ last'.info \notin { "rate_limited", "invalid_to" } )
              => last'.info = "insert"]_vars

\* a content of 5001 characters has been rejected, and a row with a content
\* of 5000 characters is in the table
C10_Witness ==
    /\ last.op = "send_message"
    /\ last.info = "invalid_content"
    /\ last.content.str
    /\ last.content.len = MaxContentLength + 1
    /\ \E i \in Rows : mensajes[i].contenido.len = MaxContentLength

\* the user's window is unexpired and its count has reached RATE_LIMIT_MAX
OverLimit(userId) ==
    IF ~MapHas(rateLimits, userId) THEN FALSE
    ELSE ~(now > rateLimits[userId].resetAt) /\ rateLimits[userId].count >= RATE_LIMIT_MAX

\* C11: a send_message handled while the sender's window is over the limit
\* inserts no row, suspends on no call of the table, and emits exactly one
\* event, the rate-limit error to the sender's socket (so no new_message,
\* message_delivered or message_sent).
C11_RateLimitedSendDoesNothingElse ==
    [][(SendStep /\ (OverLimit(Sender) \/ last'.info = "rate_limited")) =>
        /\ last'.info = "rate_limited"
        /\ mensajes' = mensajes
        /\ handlers' = handlers
        /\ audit' = audit
        /\ Len(out') = 1
        /\ IsError(out'[1], last'.conn)
        /\ out'[1].p.estado = "Limite de mensajes excedido"]_vars

\* a send_message with a valid `to` and a valid content has been rejected by
\* the rate limit
C11_Witness ==
    /\ last.op = "send_message"
    /\ last.info = "rate_limited"
    /\ ~InvalidTo(last.to)
    /\ ~Falsy(sanitizeMessage(last.content))
    /\ mensajes = <<>>
    /\ handlers = {}
    /\ Len(out) = 1

\* the step resumed a send_message handler whose insert had failed
FailedInsertResumed ==
    \E h \in handlers : h \notin handlers' /\ h.kind = "send" /\ h.pc = "insert_failed"

\* C12: when a send_message handler resumes after a failed insert, it emits
\* exactly one event, an error to the sender's socket, and ends: the table
\* is not written, no lookup of the receiver and no new_message is recorded,
\* no handler is left suspended on an update, and neither message_delivered
\* nor message_sent is emitted.
C12_FailedInsertEndsWithError ==
    [][FailedInsertResumed =>
        /\ last'.op = "send_done"
        /\ last'.info \in { "insert_error", "insert_throw" }
        /\ Len(out') = 1
        /\ IsError(out'[1], last'.conn)
        /\ mensajes' = mensajes
        /\ audit' = audit
        /\ handlers' \subseteq handlers
        /\ Cardinality(handlers') = Cardinality(handlers) - 1]_vars

\* a handler whose insert failed has ended while a socket of its sender is in
\* the presence map and no row is in the table
C12_Witness ==
    /\ last.op = "send_done"
    /\ last.info = "insert_error"
    /\ MapHas(usuariosConectados, connUser[last.conn])
    /\ mensajes = <<>>
    /\ handlers = {}
    /\ out = << ErrorEvent(last.conn, "Error al enviar mensaje") >>

\* the events that tell a client about a row
Notifications == { "new_message", "message_sent", "message_delivered", "message_seen" }
\* the event says that the row has been delivered
ReportsDelivered(e) ==
    e.ev = "message_delivered" \/ (e.ev = "message_sent" /\ e.p.estado = DELIVERED)

\* C13: every event about a row is emitted after the write it reports: the
\* row is in the table when new_message, message_sent or message_delivered
\* is emitted for it, an update to 'entregado' has written the row when
\* message_delivered or message_sent carrying 'entregado' is emitted, and an
\* update to 'visto' has written it when message_seen is emitted.
C13_WriteThenNotify ==
    \A k \in 1..Len(out) :
        out[k].ev \in Notifications =>
            /\ out[k].p.id \in Rows
            /\ ReportsDelivered(out[k]) => audit[out[k].p.id].delivered
            /\ out[k].ev = "message_seen" => audit[out[k].p.id].seenBy # {}

\* the estado an event to the sender stands for
Reported(e) == IF e.ev = "message_delivered" THEN DELIVERED ELSE e.p.estado

\* C14: when a send_message handler ends, the row is in the estado its
\* acknowledgements carry, or in a later one: 'entregado' or 'visto' when
\* message_delivered or message_sent carrying 'entregado' was emitted.
C14_AckCarriesPersistedState ==
    SendDone =>
        \A k \in 1..Len(out) :
            out[k].ev \in { "message_sent", "message_delivered" } =>
                Rank(mensajes[last.id].estado) >= Rank(Reported(out[k]))

\* a send_message handler has ended whose receiver was in the presence map at
\* the lookup and whose update to 'entregado' did not throw
C15_Case ==
    /\ SendDone
    /\ audit[last.id].presentAtLookup
    /\ last.info # "update_throw"

C15_Delivered == Emit(last.conn, "message_delivered", Payload(last.id, "", "", "", NullContent))
C15_Sent ==
    Emit(last.conn, "message_sent",
         Payload(last.id, DELIVERED, "", mensajes[last.id].receiver_id,
                 mensajes[last.id].contenido))

BadCredential(token) ==
    IF token = "" THEN TRUE
    ELSE getUser(token).error \/ getUser(token).throws \/ getUser(token).user = ""
ClientEvents == { "send_message", "mark_seen", "typing", "stop_typing" }

\* a refused socket has no user, is not in the presence map, has no handler
\* and gets no event, and the event handled last is not one of its events
C16_RefusedUnobserved ==
    \A c \in Conns :
        connState[c] = "refused" =>
            /\ connUser[c] = ""
            /\ \A u \in DOMAIN usuariosConectados : usuariosConectados[u] # c
            /\ \A u \in DOMAIN lastReg : lastReg[u] # c
            /\ \A h \in handlers : h.conn # c
            /\ \A k \in 1..Len(out) : out[k].to # c
            /\ last.op \in ClientEvents => last.conn # c

\* a socket leaves "idle" once, by the step that runs the middleware on its
\* token: a bad credential makes it refused, with the presence map unchanged
\* and no broadcast; a refused socket stays refused; only an idle socket
\* whose credential is good becomes open
C16_GateOnce ==
    \A c \in Conns :
        /\ connState[c] = "refused" => connState'[c] = "refused"
        /\ (connState[c] = "idle" /\ connState'[c] # "idle") =>
              /\ last'.conn = c
              /\ last'.op \in { "connection", "refused" }
              /\ IF BadCredential(last'.to.val)
                 THEN /\ connState'[c] = "refused"
                      /\ usuariosConectados' = usuariosConectados
                      /\ out' = <<>>
                 ELSE connState'[c] = "open"
        /\ (connState'[c] = "open" /\ connState[c] # "open") => connState[c] = "idle"

\* C16: a socket whose credential is missing, invalid or expired, resolves to
\* no user, or makes the verification throw is refused by the middleware: it
\* never gets an entry in the presence map, causes no user_status broadcast,
\* none of its events is handled, and the middleware runs once per socket,
\* before the connection handler.
C16_BadCredentialRefused == [] C16_RefusedUnobserved /\ [][C16_GateOnce]_vars

\* a socket with an expired token has been refused while another socket is
\* open: no broadcast, the presence map holds the open socket only
C16_Witness ==
    /\ last.op = "refused"
    /\ last.to.val = "expired"
    /\ connState[last.conn] = "refused"
    /\ \E d \in Conns : connState[d] = "open" /\ MapGet(usuariosConectados, connUser[d]) = d
    /\ out = <<>>

\* the caller of the mark_seen is not the receiver of a row with this id:
\* no row has the id, or the row is addressed to someone else
NotMine(c, id) == IF id \in Rows THEN mensajes[id].receiver_id # connUser[c] ELSE TRUE
\* the one event such a mark_seen is answered with; it depends on how the
\* call on the table ended and not on the row
GenericSeenError(c, info) ==
    ErrorEvent(c, IF info = "throw" THEN "Error al procesar solicitud"
                  ELSE "Error al actualizar estado")

\* when such a mark_seen ends, the only event is the same error to the
\* caller whether or not a row has the id
C17_SameAnswer ==
    (last.op = "seen_done" /\ NotMine(last.conn, last.id)) =>
        /\ last.info \in { "error", "throw" }
        /\ out = << GenericSeenError(last.conn, last.info) >>

\* neither the event nor the handler's resumption writes the table or emits
\* anything else
C17_NothingObserved ==
    /\ (last'.op = "mark_seen" /\ nEvents' # nEvents /\ last'.id # 0
            /\ NotMine(last'.conn, last'.id)) =>
          /\ mensajes' = mensajes
          /\ audit' = audit
          /\ out' = <<>>
    /\ (\E h \in handlers : h \notin handlers' /\ h.kind = "seen") =>
          /\ mensajes' = mensajes
          /\ audit' = audit

\* C17: a mark_seen for an id that no row has and a mark_seen for a row
\* addressed to someone else are answered with the same single error event to
\* the caller, the table is not written and no other socket gets an event.
C17_MarkSeenDoesNotRevealExistence == [] C17_SameAnswer /\ [][C17_NothingObserved]_vars

\* a mark_seen for an id no row has was answered with the generic error while
\* a row addressed to someone else is in the table
C17_Witness ==
    /\ last.op = "seen_done"
    /\ last.id \notin Rows
    /\ \E i \in Rows : mensajes[i].receiver_id # connUser[last.conn]
    /\ out = << GenericSeenError(last.conn, "error") >>

\* message_seen for the row of the mark_seen that ended last
C18_Seen(c) == Emit(c, "message_seen", Payload(last.id, "", "", "", NullContent))

\* when a mark_seen that updated a row ends, message_seen is emitted to the
\* socket the presence map holds for the row's sender, which is open, and
\* nothing is emitted when the map has no entry for the sender
C18_SenderToldIffPresent ==
    /\ \A u \in DOMAIN usuariosConectados : connState[usuariosConectados[u]] = "open"
    /\ (last.op = "seen_done" /\ last.info = "ok") =>
          /\ last.id \in Rows
          /\ mensajes[last.id].receiver_id = connUser[last.conn]
          /\ out = IF MapHas(usuariosConectados, mensajes[last.id].sender_id)
                   THEN << C18_Seen(usuariosConectados[mensajes[last.id].sender_id]) >>
                   ELSE <<>>

\* a mark_seen of the receiver whose update takes effect makes the row
\* 'visto', whatever its estado was ('enviado' included)
C18_ReceiverMarksSeen ==
    ( /\ last'.op = "mark_seen"
      /\ nEvents' # nEvents
      /\ last'.info = "ok"
      /\ last'.id \in Rows
      /\ ~NotMine(last'.conn, last'.id) ) =>
        /\ mensajes'[last'.id].estado = SEEN
        /\ connUser[last'.conn] \in audit'[last'.id].seenBy

\* C18: the receiver's mark_seen moves a row to 'visto' from any estado, so a
\* row sent while the receiver was offline goes from 'enviado' to 'visto'
\* without being 'entregado'; and when a successful mark_seen ends the sender
\* gets message_seen for the row if and only if the presence map has an entry
\* for the sender at that moment.
C18_SeenFromSentAndSenderTold == [] C18_SenderToldIffPresent /\ [][C18_ReceiverMarksSeen]_vars

\* a row sent while its receiver was offline is 'visto', was never written
\* 'entregado', and its sender, still connected, was told
C18_Witness ==
    /\ last.op = "seen_done"
    /\ last.info = "ok"
    /\ mensajes[last.id].estado = SEEN
    /\ ~audit[last.id].presentAtSend
    /\ ~audit[last.id].presentAtLookup
    /\ ~audit[last.id].delivered
    /\ audit[last.id].newMessages = 0
    /\ mensajes[last.id].sender_id # mensajes[last.id].receiver_id
    /\ Len(out) = 1
    /\ out[1].ev = "message_seen"
    /\ connUser[out[1].to] = mensajes[last.id].sender_id

\* the step handled a typing or stop_typing event
TypingStep == last'.op \in { "typing", "stop_typing" } /\ nEvents' # nEvents
\* the one event relayed for it to socket `d`
C19_Relay(d) ==
    Emit(d, IF last'.op = "typing" THEN "user_typing" ELSE "user_stop_typing",
         Payload(0, "", connUser[last'.conn], "", NullContent))

\* C19: a typing or stop_typing event whose `to` has an entry in the
\* presence map makes exactly one event, user_typing or user_stop_typing
\* carrying the caller's id, to the socket of that entry; otherwise nothing
\* is emitted (no error, no acknowledgement); in both cases the presence map,
\* the table of rate-limit windows, the table mensajes and the suspended
\* handlers are unchanged.
C19_TypingIsStatelessRelay ==
    [][TypingStep =>
        /\ usuariosConectados' = usuariosConectados
        /\ rateLimits' = rateLimits
        /\ rateAudit' = rateAudit
        /\ mensajes' = mensajes
        /\ handlers' = handlers
        /\ out' = IF last'.to.type = "string" /\ MapHas(usuariosConectados, last'.to.val)
                  THEN << C19_Relay(usuariosConectados[last'.to.val]) >>
                  ELSE <<>>]_vars

\* a typing signal of one user has been relayed to the socket of another
C19_Witness ==
    /\ last.op = "typing"
    /\ last.to.type = "string"
    /\ last.to.val # connUser[last.conn]
    /\ Len(out) = 1
    /\ out[1].ev = "user_typing"
    /\ out[1].p.from = connUser[last.conn]
    /\ out[1].to = MapGet(usuariosConectados, last.to.val)
    /\ connState[out[1].to] = "open"

\* the disconnect of a socket leaves the suspended handlers, the table and
\* what is recorded about the rows as they were
C20_DisconnectCancelsNothing ==
    (last'.op = "disconnect" /\ nEvents' # nEvents) =>
        /\ handlers' = handlers
        /\ mensajes' = mensajes
        /\ audit' = audit

\* a send_message handler that ends after its socket was closed has done what
\* it does for an open socket: the row is in the table, the receiver was
\* looked up, and when it was found one new_message went to its socket and,
\* the update having taken effect, the row was written 'entregado'
C20_ClosedSenderCompletes ==
    (SendDone /\ connState[last.conn] = "closed") =>
        /\ audit[last.id].looked
        /\ mensajes[last.id].sender_id = connUser[last.conn]
        /\ audit[last.id].presentAtLookup =>
              /\ audit[last.id].newMessages = 1
              /\ \E c \in Conns : /\ audit[last.id].newTo = {c}
                                  /\ connUser[c] = mensajes[last.id].receiver_id
              /\ last.info = "delivered_ok" =>
                    /\ audit[last.id].delivered
                    /\ mensajes[last.id].estado \in { DELIVERED, SEEN }
        /\ ~audit[last.id].presentAtLookup =>
              /\ audit[last.id].newMessages = 0
              /\ last.info = "offline"

\* C20: the disconnect of the sender's socket while its send_message handler
\* is suspended cancels nothing: the handler stays suspended and later ends
\* as for an open socket, the row stays in the table, and a receiver found at
\* the lookup gets new_message and the row is updated to 'entregado'.
C20_DisconnectDoesNotCancelSend ==
    [] C20_ClosedSenderCompletes /\ [][C20_DisconnectCancelsNothing]_vars

\* the sender's socket was closed while its handler was suspended, and the
\* message was delivered to the other user all the same
C20_Witness ==
    /\ SendDone
    /\ connState[last.conn] = "closed"
    /\ last.info = "delivered_ok"
    /\ mensajes[last.id].sender_id # mensajes[last.id].receiver_id
    /\ mensajes[last.id].estado = DELIVERED
    /\ audit[last.id].newMessages = 1
    /\ handlers = {}

\* the sockets connected before the step, other than `c`
Peers(c) == { d \in Conns : d # c /\ connState[d] = "open" }
\* the events of the step are one user_status {userId, status} for each
\* socket of `peers`, and nothing else
IsBroadcast(events, peers, userId, status) ==
    /\ Len(events) = Cardinality(peers)
    /\ \A d \in peers :
          \E k \in 1..Len(events) :
              events[k] = Emit(d, "user_status", Payload(0, status, userId, "", NullContent))

\* C21: the step that registers a socket in the presence map emits
\* user_status 'online' for its user to every other connected socket, the
\* step that removes an entry emits user_status 'offline' likewise, neither
\* emits anything to the socket itself, and no other step emits user_status.
C21_StatusBroadcastOnRegisterAndRemove ==
    [][ /\ (last'.op = "connection" /\ nEvents' # nEvents) =>
              /\ MapGet(usuariosConectados', last'.info) = last'.conn
              /\ IsBroadcast(out', Peers(last'.conn), last'.info, "online")
        /\ (last'.op = "disconnect" /\ nEvents' # nEvents) =>
              /\ ~MapHas(usuariosConectados', last'.info)
              /\ IsBroadcast(out', Peers(last'.conn), last'.info, "offline")
        /\ last'.op \notin { "connection", "disconnect" } =>
              /\ usuariosConectados' = usuariosConectados
              /\ \A k \in 1..Len(out') : out'[k].ev # "user_status" ]_vars

\* the second user has connected and the socket of the first was told
C21_Witness ==
    /\ last.op = "connection"
    /\ last.info = "B"
    /\ Len(out) = 1
    /\ out[1].ev = "user_status"
    /\ out[1].p.estado = "online"
    /\ out[1].p.from = "B"
    /\ connUser[out[1].to] = "A"
    /\ out[1].to # last.conn

\* the message of the error event of a failed persistence call, by the
\* operation and by whether the call answered an error or threw
FixedMessage(op, info) ==
    CASE op = "send_done" /\ info = "insert_error" -> "Error al enviar mensaje"
      [] op = "send_done" /\ info \in { "insert_throw", "update_throw" } ->
             "Error al procesar mensaje"
      [] op = "seen_done" /\ info = "error" -> "Error al actualizar estado"
      [] op = "seen_done" /\ info = "throw" -> "Error al procesar solicitud"
PersistenceFailed == last.op \in { "send_done", "seen_done" } /\ last.to.type = "detail"

\* C22: when a send_message or mark_seen handler ends on a failed
\* persistence call, what it emits is one error event to the caller whose
\* message is fixed by the operation and the kind of failure: two failures
\* that differ only in the detail carried by the error give the same events.
C22_ErrorEventsIndependentOfDetail ==
    PersistenceFailed =>
        /\ last.to.val \in ErrorDetails
        /\ out = << ErrorEvent(last.conn, FixedMessage(last.op, last.info)) >>

\* an insert has answered an error with a detail of the store, and a
\* mark_seen update has thrown with another
C22_Witness ==
    /\ PersistenceFailed
    /\ \/ last.op = "send_done" /\ last.info = "insert_error"
          /\ last.to.val = "violates foreign key constraint"
       \/ last.op = "seen_done" /\ last.info = "throw"
          /\ last.to.val = "fetch failed"
    /\ Len(out) = 1
    /\ out[1].ev = "error"

\* the sender of the step has no window, or the time is past its resetAt
NoLiveWindow(userId) == ~MapHas(rateLimits, userId) \/ now > rateLimits[userId].resetAt
Allowed == last'.info # "rate_limited"

\* C23: a send attempt of a user with no window, or made at a time strictly
\* greater than the window's resetAt, is allowed and replaces the window by
\* {count: 1, resetAt: now + RATE_LIMIT_WINDOW}; an allowed attempt inside a
\* window adds exactly 1 to its count; no attempt inside a window changes
\* its resetAt, and an attempt made at the time resetAt is inside the window.
C23_FixedWindowEvaluatedLazily ==
    [][SendStep =>
        /\ NoLiveWindow(Sender) =>
              /\ Allowed
              /\ rateLimits'[Sender] = [count |-> 1, resetAt |-> now + RATE_LIMIT_WINDOW]
        /\ ~NoLiveWindow(Sender) =>
              /\ rateLimits'[Sender].resetAt = rateLimits[Sender].resetAt
              /\ rateLimits'[Sender].count =
                    IF Allowed THEN rateLimits[Sender].count + 1
                    ELSE rateLimits[Sender].count
              /\ Allowed <=> rateLimits[Sender].count < RATE_LIMIT_MAX
        /\ (MapHas(rateLimits, Sender) /\ now = rateLimits[Sender].resetAt) =>
              ~NoLiveWindow(Sender)
        /\ \A u \in DOMAIN rateLimits' \ {Sender} :
              MapHas(rateLimits, u) /\ rateLimits'[u] = rateLimits[u] ]_vars

\* an attempt made at the time resetAt of its window has been counted in
\* that window
C23_Witness ==
    /\ last.op = "send_message"
    /\ last.info # "rate_limited"
    /\ MapHas(rateLimits, connUser[last.conn])
    /\ now = rateLimits[connUser[last.conn]].resetAt
    /\ rateLimits[connUser[last.conn]].count >= 2
    /\ rateAudit[connUser[last.conn]].start = now - RATE_LIMIT_WINDOW

\* The table of windows of the run that makes the same attempts at the same
\* times and never sweeps, from the history of attempts: a window opened by
\* the first attempt of each period, never deleted, its count stopping at
\* RATE_LIMIT_MAX.
NoSweepTable ==
    [u \in DOMAIN rateAudit |->
        [count |-> IF rateAudit[u].attempts > RATE_LIMIT_MAX THEN RATE_LIMIT_MAX
                   ELSE rateAudit[u].attempts,
         resetAt |-> rateAudit[u].start + RATE_LIMIT_WINDOW]]
\* the table differs from that of the run without sweeps only by windows
\* that have expired
SweptOnlyExpired ==
    /\ DOMAIN rateLimits \subseteq DOMAIN NoSweepTable
    /\ \A u \in DOMAIN NoSweepTable :
          IF MapHas(rateLimits, u) THEN rateLimits[u] = NoSweepTable[u]
          ELSE now > NoSweepTable[u].resetAt

\* C24: a sweep deletes every window whose resetAt has passed and leaves
\* every other window as it was; and each attempt is allowed or rejected as
\* it is in the run that makes the same attempts at the same times without
\* any sweep.
C24_SweepIsTransparent ==
    /\ [] SweptOnlyExpired
    /\ [][ /\ last'.op = "sweep" =>
                 /\ DOMAIN rateLimits' =
                        { u \in DOMAIN rateLimits : ~(now > rateLimits[u].resetAt) }
                 /\ \A u \in DOMAIN rateLimits' : rateLimits'[u] = rateLimits[u]
           /\ SendStep =>
                 (Allowed <=> checkRateLimit(NoSweepTable, Sender, now).ok) ]_vars

\* a sweep has deleted the expired window of a user who had been rejected in
\* it
C24_Witness ==
    /\ last.op = "sweep"
    /\ MapHas(rateAudit, "A")
    /\ rateAudit["A"].attempts > RATE_LIMIT_MAX
    /\ now > rateAudit["A"].start + RATE_LIMIT_WINDOW
    /\ ~MapHas(rateLimits, "A")

\* the event is about the row the handler of the step inserted and carries
\* that row's content
CarriesRow(e) ==
    /\ e.p.id \in Rows
    /\ e.p.id = last.id
    /\ e.p.content = mensajes[e.p.id].contenido

\* C25: every new_message and every message_sent carries the id of the row
\* its handler inserted and the content persisted in that row; new_message
\* carries the row's sender, the user of the sending socket, as `from`;
\* message_sent goes to the sending socket and carries the recipient the
\* sender asked for as `to`.
C25_EventsCarryPersistedMessage ==
    \A k \in 1..Len(out) :
        /\ out[k].ev = "new_message" =>
              /\ CarriesRow(out[k])
              /\ out[k].p.from = mensajes[out[k].p.id].sender_id
              /\ out[k].p.from = connUser[last.conn]
        /\ out[k].ev = "message_sent" =>
              /\ CarriesRow(out[k])
              /\ out[k].to = last.conn
              /\ connUser[last.conn] = mensajes[out[k].p.id].sender_id
              /\ out[k].p.dest = mensajes[out[k].p.id].receiver_id

\* "A" has sent 5000 characters with a space before them to "B": the row
\* holds the trimmed content, "B" got one new_message for it and "A" now
\* gets message_sent for the same row
C25_Witness ==
    /\ last.op = "send_done"
    /\ last.id \in Rows
    /\ mensajes[last.id].sender_id = "A"
    /\ mensajes[last.id].receiver_id = "B"
    /\ mensajes[last.id].contenido = Content(TRUE, 0, MaxContentLength, "plain")
    /\ audit[last.id].newMessages = 1
    /\ Len(out) = 2
    /\ out[2].ev = "message_sent"
    /\ out[2].p.dest = "B"
    /\ out[2].p.content = mensajes[last.id].contenido

\* `max` of messageLimiter, the limit the documentation gives for messages
\* over the WebSocket
messageLimiterMax == 30

\* C26: of the send_message events of one user inside one window of one
\* minute, the 31st and every later one is rejected by the rate limit.
C26_ThirtyMessagesPerMinute ==
    [][(SendStep /\ rateAudit'[Sender].attempts > messageLimiterMax)
          => last'.info = "rate_limited"]_vars

\* the step is a get of the cache, a set, for the key ret'.key
GetStep == ret'.op = "get" /\ nEvents' # nEvents
SetStep == ret'.op = "set" /\ pending' # pending
\* the entry of the key of the step before the step, and its age
Held == Index(cache, ret'.key)
Age == now - cache[Held].timestamp

\* C27: get answers the data of the entry of its key when that entry was
\* stored at most ttl ago, leaves the cache as it is and counts a hit; when
\* the entry is older it answers null, deletes the entry and counts a miss,
\* whether or not cleanExpired has run; with no entry it answers null and
\* counts a miss.  Data read more than ttl ago is never answered.
C27_GetNeverServesExpired ==
    [][GetStep =>
        /\ ret'.data # NullData => now - ret'.data.at <= ttl
        /\ IF Held = 0
           THEN /\ ret'.data = NullData
                /\ cache' = cache
                /\ hits' = hits /\ misses' = misses + 1
           ELSE IF Age > ttl
           THEN /\ ret'.data = NullData
                /\ Index(cache', ret'.key) = 0
                /\ Len(cache') = Len(cache) - 1
                /\ hits' = hits /\ misses' = misses + 1
           ELSE /\ ret'.data = cache[Held].data
                /\ cache' = cache
                /\ hits' = hits + 1 /\ misses' = misses ]_vars

\* a get has found an entry older than ttl that no cleanExpired had
\* removed, has answered null and has deleted it
C27_Witness ==
    /\ ret.op = "get"
    /\ ret.data = NullData
    /\ ret.evicted = ret.key
    /\ Index(cache, ret.key) = 0
    /\ misses >= 2

\* C28: the cache never holds more than maxSize entries, and never two
\* entries with the same key.
C28_AtMostMaxSizeEntries ==
    /\ Len(cache) <= maxSize
    /\ \A i, j \in 1..Len(cache) : cache[i].key = cache[j].key => i = j

\* the cache is full and a set has just evicted an entry to stay so
C28_Witness ==
    /\ ret.op = "set"
    /\ ret.evicted # NoKey
    /\ Len(cache) = maxSize

Keys(c) == { c[i].key : i \in 1..Len(c) }
\* the key is that of an entry of the cache than which none was stored
\* earlier
Oldest(c, key) ==
    /\ key \in Keys(c)
    /\ \A j \in 1..Len(c) : c[Index(c, key)].timestamp <= c[j].timestamp

\* C29: a set on a full cache evicts exactly one entry, one with the
\* earliest timestamp among the entries, and a set on a cache that is not
\* full evicts none, whether or not the key of the set is already present.
C29_EvictsOldestWhenFull ==
    [][SetStep =>
        IF Len(cache) >= maxSize
        THEN /\ Oldest(cache, ret'.evicted)
             /\ Keys(cache') = (Keys(cache) \ {ret'.evicted}) \cup {ret'.key}
        ELSE /\ ret'.evicted = NoKey
             /\ Keys(cache') = Keys(cache) \cup {ret'.key} ]_vars

\* the step is a request of a user for a query passing preventDuplicateSearches
SearchStep == ret'.op \in { "429", "next" } /\ nEvents' # nEvents
Blocked == ret'.op = "429"
\* the same user made a search for the same normalized query that was let
\* through less than SEARCH_COOLDOWN ago
RecentlyAccepted(key) ==
    MapHas(searchAudit, key) /\ now - searchAudit[key] < SEARCH_COOLDOWN

\* C30: a search is answered 429 exactly when the same user made a search
\* for the same normalized query that was let through less than 2000 ms
\* earlier; a blocked search leaves the stored timestamps as they were, and a
\* search let through stores the current time for its user and query only.
C30_BlocksRepeatWithinCooldown ==
    [][SearchStep =>
        /\ Blocked <=> RecentlyAccepted(ret'.key)
        /\ Blocked => recentSearches' = recentSearches
        /\ ~Blocked =>
              /\ recentSearches'[ret'.key] = now
              /\ \A k \in DOMAIN recentSearches' \ {ret'.key} :
                    MapHas(recentSearches, k) /\ recentSearches'[k] = recentSearches[k] ]_vars

\* a user has searched, has repeated the search within the cool-down and
\* been blocked, and has now repeated it 2000 ms after the first search and
\* been let through
C30_Witness ==
    /\ ret.op = "next"
    /\ nEvents = 3
    /\ DOMAIN recentSearches = { ret.key }
    /\ now = 1 + SEARCH_COOLDOWN
    /\ recentSearches[ret.key] = now

\* the step is the one in which the handler of row last'.id pushes
\* new_message to the receiver's socket
NewMessageStep == last'.op = "send_lookup" /\ audit'[last'.id].newMessages > audit[last'.id].newMessages
\* row j was sent after row i by the same socket to the same receiver, a
\* user other than the sender (the sender has had no other socket)
SentAfter(i, j, c) ==
    /\ j > i
    /\ mensajes[j].sender_id = mensajes[i].sender_id
    /\ mensajes[j].receiver_id = mensajes[i].receiver_id
    /\ mensajes[i].receiver_id # mensajes[i].sender_id
    /\ \A d \in Conns : connUser[d] = mensajes[i].sender_id => d = c

\* C31: when new_message is pushed for a message, no new_message has been
\* pushed yet for a message that the same socket sent later to the same
\* receiver.
C31_PushedInSendOrder ==
    [][NewMessageStep =>
        \A j \in Rows : SentAfter(last'.id, j, last'.conn) => audit[j].newMessages = 0]_vars

\* the terminal responses of a send_message among the events of the step:
\* the error events and the message_sent events that go to the socket c
Terminals(events, c) ==
    { k \in 1..Len(events) : events[k].to = c /\ events[k].ev \in { "error", "message_sent" } }
SendHandlers(hs) == { h \in hs : h.kind = "send" }
RejectedInfos == { "rate_limited", "invalid_to", "invalid_content" }

C33_RegistryEntriesAreLive ==
    /\ DOMAIN usuariosConectados \subseteq Users
    /\ \A u \in DOMAIN usuariosConectados :
          /\ usuariosConectados[u] \in Conns
          /\ connUser[usuariosConectados[u]] = u
          /\ connState[usuariosConectados[u]] = "open"

\* a user is registered with an open socket after another socket of the
\* same user was disconnected
C33_Witness ==
    \E u \in DOMAIN usuariosConectados :
        /\ connState[usuariosConectados[u]] = "open"
        /\ \E d \in Conns : connUser[d] = u /\ connState[d] = "closed"

\* the events that name a sender in `from`
NamesSender(e) == e.ev \in { "new_message", "user_typing", "user_stop_typing" }
\* the step is the insert of a row by the send_message handler of last'.conn
InsertStep == Len(mensajes') = Len(mensajes) + 1

\* C34: the user of a socket is fixed when the socket authenticates; the
\* sender_id of a row is the user of the socket whose send_message inserted
\* it and never changes; and the `from` of every new_message, user_typing
\* and user_stop_typing is the user of the socket whose handler emits it,
\* whatever `to` and `content` the client sent.
C34_SenderIsAuthenticatedUser ==
    /\ [] (\A k \in 1..Len(out) : NamesSender(out[k]) =>
              /\ out[k].p.from = connUser[last.conn]
              /\ out[k].p.from \in Users
              /\ out[k].ev = "new_message" => out[k].p.from = mensajes[last.id].sender_id)
    /\ [][ /\ \A c \in Conns : connState[c] # "idle" => connUser'[c] = connUser[c]
           /\ \A i \in Rows : mensajes'[i].sender_id = mensajes[i].sender_id
           /\ InsertStep =>
                 /\ last'.op = "send_message"
                 /\ mensajes'[Len(mensajes')].sender_id = connUser[last'.conn]
                 /\ connUser[last'.conn] \in Users ]_vars

\* a socket of "A" sends a typing signal that names "B", after "A" has sent
\* a message to "B": the relayed event carries "A", the socket's user
C34_Witness ==
    /\ last.op \in TypingSignals
    /\ last.to = To("string", "B")
    /\ connUser[last.conn] = "A"
    /\ Len(out) = 1
    /\ out[1].p.from = "A"
    /\ \E i \in Rows : mensajes[i].sender_id = "A" /\ mensajes[i].receiver_id = "B"

\* the suspended send_message handler of row i runs on socket c
IssuedBy(hs, i, c) == \E h \in hs : h.kind = "send" /\ h.id = i /\ h.conn = c
Acks == { "message_delivered", "message_sent" }

\* C35: a new_message goes to a socket whose user is the receiver_id of the
\* row it carries; message_delivered and message_sent go to the socket that
\* issued the send_message of the row; and an event that carries the
\* content of a row goes to a socket of the row's sender or receiver only.
C35_PrivateToTheTwoParties ==
    /\ [] (\A k \in 1..Len(out) :
              /\ out[k].ev = "new_message" =>
                    /\ out[k].p.id \in Rows
                    /\ connUser[out[k].to] = mensajes[out[k].p.id].receiver_id
              /\ out[k].p.content # NullContent =>
                    /\ out[k].p.id \in Rows
                    /\ connUser[out[k].to] \in { mensajes[out[k].p.id].sender_id,
                                                 mensajes[out[k].p.id].receiver_id })
    /\ [][ /\ InsertStep => IssuedBy(handlers', Len(mensajes'), last'.conn)
           /\ \A h \in SendHandlers(handlers') :
                 h.id \in Rows => IssuedBy(handlers, h.id, h.conn)
           /\ \A k \in 1..Len(out') :
                 out'[k].ev \in Acks =>
                    /\ out'[k].to = last'.conn
                    /\ IssuedBy(handlers, out'[k].p.id, out'[k].to) ]_vars

\* "A" has two sockets and a socket of "B" is connected: the new_message of
\* a row sent from one socket of "A" went to the socket of "B", and the
\* acknowledgements now go to the socket that sent, not to the other one
C35_Witness ==
    /\ last.op = "send_done"
    /\ last.id \in Rows
    /\ \E d \in Conns : d # last.conn /\ connUser[d] = connUser[last.conn] /\ connState[d] = "open"
    /\ mensajes[last.id].receiver_id # mensajes[last.id].sender_id
    /\ audit[last.id].newMessages = 1
    /\ \A c \in audit[last.id].newTo : connUser[c] = mensajes[last.id].receiver_id
    /\ Len(out) = 2
    /\ out[2].ev = "message_sent" /\ out[2].to = last.conn

\* the attempts of the user's window that passed the rate limit, from the
\* history of attempts: the window of the table is the one the history
\* describes, opened by the first attempt of the period, and its count is
\* the number of the attempts made in it or RATE_LIMIT_MAX, whichever is less
WindowCountsPasses(u) ==
    /\ MapHas(rateAudit, u)
    /\ rateLimits[u].resetAt = rateAudit[u].start + RATE_LIMIT_WINDOW
    /\ rateLimits[u].count =
          IF rateAudit[u].attempts > RATE_LIMIT_MAX THEN RATE_LIMIT_MAX
          ELSE rateAudit[u].attempts

C37_WindowsKeyedByUser ==
    [][ /\ (~SendStep /\ last'.op # "sweep") => rateLimits' = rateLimits
        /\ SendStep =>
              /\ rateLimits' = checkRateLimit(rateLimits, Sender, now).limits
              /\ \A u \in Users \ {Sender} :
                    /\ MapHas(rateLimits', u) <=> MapHas(rateLimits, u)
                    /\ MapHas(rateLimits, u) => rateLimits'[u] = rateLimits[u] ]_vars

\* a user has connected again after a disconnect, the window of the send
\* made on the closed socket still in the table
C37_Witness ==
    /\ last.op = "connection"
    /\ \E d \in Conns :
          /\ d # last.conn
          /\ connState[d] = "closed"
          /\ connUser[d] = connUser[last.conn]
    /\ MapHas(rateLimits, connUser[last.conn])
    /\ rateLimits[connUser[last.conn]].count = 1

\* the step handled a mark_seen event of the receiver of a row that is
\* already 'visto', and the update was carried out
RepeatedMarkSeen ==
    /\ last'.op = "mark_seen"
    /\ nEvents' # nEvents
    /\ last'.info = "ok"
    /\ last'.id \in Rows
    /\ mensajes[last'.id].receiver_id = connUser[last'.conn]
    /\ mensajes[last'.id].estado = SEEN
\* the mark_seen handlers that the step resumed after an update that
\* answered a row
SeenSucceeded == { h \in handlers \ handlers' : h.kind = "seen" /\ h.res = "ok" }

\* C38: a mark_seen of the receiver on a row that is already 'visto' leaves
\* the table as it is, the row 'visto', and its update answers the row as
\* the first one did; and every mark_seen that resumes after such an answer
\* emits one message_seen for the row to the socket of the row's sender, if
\* the presence map has one, and nothing otherwise.
C38_MarkSeenIsIdempotent ==
    [][ /\ RepeatedMarkSeen =>
              /\ mensajes' = mensajes
              /\ mensajes'[last'.id].estado = SEEN
              /\ \E h \in handlers' \ handlers :
                    /\ h.kind = "seen" /\ h.id = last'.id /\ h.conn = last'.conn
                    /\ h.res = "ok"
                    /\ h.to = mensajes[last'.id].sender_id
        /\ \A h \in SeenSucceeded :
              out' = IF MapHas(usuariosConectados, h.to)
                     THEN << Emit(usuariosConectados[h.to], "message_seen",
                                  Payload(h.id, "", "", "", NullContent)) >>
                     ELSE <<>> ]_vars

\* a row was written 'visto' twice and never 'entregado', and the mark_seen
\* that wrote it last has ended: the row is 'visto' and its sender,
\* connected, has got message_seen for it
C38_Witness ==
    /\ last.op = "seen_done"
    /\ last.info = "ok"
    /\ audit[last.id].seenWrites = 2
    /\ ~audit[last.id].delivered
    /\ mensajes[last.id].estado = SEEN
    /\ \A h \in handlers : ~(h.kind = "seen" /\ h.id = last.id)
    /\ Len(out) = 1
    /\ out[1].ev = "message_seen"
    /\ out[1].p.id = last.id
    /\ connUser[out[1].to] = mensajes[last.id].sender_id

\* the step answered a request of GET /search with a body.data, from the
\* cache or from the route
Answered == ret.op \in { "get", "set" } /\ ret.data # NullData

====
